---- MODULE Spec2Model ----
(***************************************************************************)
(* A model of dzchoi/processes: class process (process.hpp) and its        *)
(* companion _pipe<> (_pipe.hpp).                                          *)
(*                                                                         *)
(* Spec    : the wait()/wait(timeout)/poll()/kill() protocol of one        *)
(*           process object shared by several threads, next to the kernel  *)
(*           state of its child.                                           *)
(* FairSpec: Spec with every thread scheduled to take the steps of a call  *)
(*           it is in.                                                     *)
(* SpecFd  : the file descriptors of the parent and of the child over      *)
(*           construction, move, destruction and the caller's closing of   *)
(*           a far end through an fdstream.                                *)
(***************************************************************************)
EXTENDS Integers, FiniteSets, Sequences, TLC

(* ------------------------------------------------------------------ *)
(* Bounds of the model                                                 *)
(* ------------------------------------------------------------------ *)

\* number of threads sharing the process object
NumThreads == 2

\* largest timeout (ms) handed to wait(timeout)
MaxTimeout == 1

\* the pid fork() returned for the child (any positive number)
ChildPid == 1

\* number of process objects the caller makes (by spawning or by moving)
MaxProcs == 2

\* number of times the caller calls the constructor that spawns
MaxSpawns == 1

\* largest handle number in a file table
MaxFd == 10

\* how often ::open("/dev/null") may fail
MaxOpenFailures == 1

\* the largest argument of _exit() and the largest signal number looked at
MaxExit == 256
MaxSignal == 31

\* the longest timeout of a wait(timeout) whose sleeps are followed, in ms
MaxBudget == 200

Threads == 1..NumThreads

Procs == 1..MaxProcs

Fds == 0..MaxFd

Timeouts == 0..MaxTimeout

\* the timeouts of a call that has no time at all: zero and negative ones too
MinTimeout == -1
ShortTimeouts == MinTimeout..MaxTimeout

(* ------------------------------------------------------------------ *)
(* Program constants                                                   *)
(* ------------------------------------------------------------------ *)

DONE == 0

ALONE == 1

AWAITED == 2

UNKNOWN == -127

SAMEOUT == -3

PIPE == -2

DEVNULL == -1

STDIN == 0

STDOUT == 1

STDERR == 2

SIGKILL == 9

SIGTERM == 15

\* cap of the polling interval of wait(timeout), in ms
MaxDt == 64

\* exit status of a child whose execvp() failed
ExecFailed == 127

\* exit statuses the child may end with (0: success, 127: failed exec)
ExitCodes == {0, ExecFailed}

\* signals handed to kill()
Signals == {SIGKILL, SIGTERM}

(* ------------------------------------------------------------------ *)
(* <sys/wait.h> as used by the decoding of the wait status             *)
(* ------------------------------------------------------------------ *)

\* the wait status of a child that called _exit(code)
W_EXITCODE(code) == (code % 256) * 256

\* the wait status of a child killed by signal sig
W_SIGNALED(sig) == sig

\* the flag added to the wait status of a child that dumped core
WCOREFLAG == 128

WIFEXITED(s) == (s % 128) = 0

\* a WEXITSTATUS that reads the exit status as a signed char
WEXITSTATUS_SignedChar(s) ==
    IF ((s \div 256) % 256) < 128 THEN (s \div 256) % 256
    ELSE ((s \div 256) % 256) - 256

WEXITSTATUS(s) == (s \div 256) % 256

WIFSIGNALED(s) == (s % 128) \in 1..126

WTERMSIG(s) == s % 128

VARIABLES
    running,    \* process::_running
    exitcode,   \* process::_exitcode
    mtx,        \* owner of process::_mtx_running: {} or {t}
    cvq,        \* threads blocked on process::_not_awaited
    pc,         \* where each thread stands
    op,         \* the operation each thread is in (or was last in)
    res,        \* what the last completed operation of each thread returned
    wpid,       \* local wpid of wait()/wait(timeout)/poll()
    status,     \* local status of wait()/wait(timeout)/poll()
    rem,        \* wait(timeout): when - now, in ms
    dt,         \* wait(timeout): local dt, in ms
    sig,        \* kill(): the signal to send
    child,      \* kernel: "running", "zombie" (terminated, unreaped), "reaped"
    cstatus,    \* kernel: wait status of the zombie
    reapLog,    \* outcome of the last ::waitpid() that did not return 0
    reaper,     \* the thread whose ::waitpid() returned the child's pid: {} or {t}
    sigLog,     \* the states of the child in which ::kill() reached the kernel
    files,      \* the parent's file table: handle -> endpoint, and the FD_CLOEXEC flags
    devnull,    \* process::_fd_or_devnull: the once_flag and the static devnull
    procs,      \* the process objects: their fields, and the pipe ends made for them
    kid,        \* the child the constructor has just made: what it holds after exec
    spawns,     \* how many times the spawning constructor was called
    closedOnce, \* pipe ends a close() was issued for
    closedAgain, \* pipe ends a second close() was issued for
    thrown,     \* the constructor call just made threw: why, and the handles open before it
    kids,       \* the children of the objects: running or not, and the pipe ends they hold
    trial,      \* the comparison of two calls from one state: which one runs, and the first's outcome
    ctor        \* the constructor calls under way in the threads, and std::call_once's one_time

vars == <<running, exitcode, mtx, cvq, pc, op, res, wpid, status, rem, dt, sig,
          child, cstatus, reapLog, reaper, sigLog,
          files, devnull, procs, kid, spawns, closedOnce, closedAgain, thrown,
          kids, trial, ctor>>

\* the state of the wait protocol
waitvars == <<running, exitcode, mtx, cvq, pc, op, res, wpid, status, rem, dt, sig,
              child, cstatus, reapLog, reaper, sigLog>>

\* the state no step of wait(), wait(timeout), poll() or kill() touches
fdvars == <<files, devnull, procs, kid, spawns, closedOnce, closedAgain, thrown,
            kids, trial, ctor>>

\* the mutex is the set of its owners: empty, or one thread
Free == {}

NoThread == {}

locals == <<wpid, status, rem, dt, sig>>

kernel == <<child, cstatus>>

(* ------------------------------------------------------------------ *)
(* Helpers                                                             *)
(* ------------------------------------------------------------------ *)

\* a sleep that takes nothing off the budget
Min_NoTime(a, b) == 0

Min(a, b) == IF a < b THEN a ELSE b

\* the predicate both condition-variable waits test: _running != AWAITED
NotAwaited == running # AWAITED

\* a thread taken off the condition variable must re-acquire the mutex
Relock(p) == IF p = "w_blocked" THEN "w_relock" ELSE "tw_relock"

\* the program counters after the threads of S were woken
WakeIn(p, S) == [u \in Threads |-> IF u \in S THEN Relock(p[u]) ELSE p[u]]

\* _not_awaited.notify_all()
NotifyAll(p) == WakeIn(p, cvq)

\* the locals of a call end with the call
DropLocals(t) ==
    /\ wpid' = [wpid EXCEPT ![t] = 0]
    /\ status' = [status EXCEPT ![t] = 0]
    /\ rem' = [rem EXCEPT ![t] = 0]
    /\ dt' = [dt EXCEPT ![t] = 0]
    /\ sig' = [sig EXCEPT ![t] = 0]

(* ------------------------------------------------------------------ *)
(* The decoding of the wait status, as written out in each operation   *)
(* ------------------------------------------------------------------ *)

\* a decoding that forgets to look at what ::waitpid() returned
DecodeWait_Unchecked(old, w, s) ==
    IF WIFEXITED(s) THEN WEXITSTATUS(s)
    ELSE IF WIFSIGNALED(s) THEN -WTERMSIG(s)
    ELSE old

\* the decoding without the negation of the signal number
DecodeTimed_NoNegation(old, w, s) ==
    IF w # -1
    THEN IF WIFEXITED(s) THEN WEXITSTATUS(s)
         ELSE IF WIFSIGNALED(s) THEN WTERMSIG(s)
         ELSE old
    ELSE old

DecodeWait(old, w, s) ==
    IF w # -1
    THEN IF WIFEXITED(s) THEN WEXITSTATUS(s)
         ELSE IF WIFSIGNALED(s) THEN -WTERMSIG(s)
         ELSE old
    ELSE old

DecodeTimed(old, w, s) ==
    IF w # -1
    THEN IF WIFEXITED(s) THEN WEXITSTATUS(s)
         ELSE IF WIFSIGNALED(s) THEN -WTERMSIG(s)
         ELSE old
    ELSE old

DecodePoll(old, w, s) ==
    IF w # -1
    THEN IF WIFEXITED(s) THEN WEXITSTATUS(s)
         ELSE IF WIFSIGNALED(s) THEN -WTERMSIG(s)
         ELSE old
    ELSE old

(* ------------------------------------------------------------------ *)
(* The kernel: the child and ::waitpid()                               *)
(* ------------------------------------------------------------------ *)

\* the child calls _exit(code) and stays a zombie until it is reaped
ChildExit(code) ==
    /\ child = "running"
    /\ child' = "zombie"
    /\ cstatus' = W_EXITCODE(code)
    /\ UNCHANGED <<running, exitcode, mtx, cvq, pc, op, res, locals,
                   reapLog, reaper, sigLog>>
    /\ UNCHANGED fdvars

\* the child ends while the host ignores SIGCHLD: the kernel reaps it itself
ChildExitAutoReaped ==
    /\ child = "running"
    /\ child' = "reaped"
    /\ UNCHANGED <<running, exitcode, mtx, cvq, pc, op, res, locals, cstatus,
                   reapLog, reaper, sigLog>>
    /\ UNCHANGED fdvars

\* ::waitpid(pid, &status, ...) finds the zombie: it is reaped by thread t
Reaped(t, next) ==
    /\ child = "zombie"
    /\ child' = "reaped"
    /\ wpid' = [wpid EXCEPT ![t] = ChildPid]
    /\ status' = [status EXCEPT ![t] = cstatus]
    /\ reapLog' = "ok"
    /\ reaper' = {t}
    /\ pc' = [pc EXCEPT ![t] = next]
    /\ UNCHANGED cstatus

\* ::waitpid(pid, &status, ...) finds no such child (ECHILD)
NoChild(t, next) ==
    /\ child = "reaped"
    /\ wpid' = [wpid EXCEPT ![t] = -1]
    /\ reapLog' = "echild"
    /\ pc' = [pc EXCEPT ![t] = next]
    /\ UNCHANGED <<status, reaper, kernel>>

\* a blocking ::waitpid() is interrupted by a signal handler of the host (EINTR)
Interrupted(t, next) ==
    /\ child = "running"
    /\ wpid' = [wpid EXCEPT ![t] = -1]
    /\ reapLog' = "eintr"
    /\ pc' = [pc EXCEPT ![t] = next]
    /\ UNCHANGED <<status, reaper, kernel>>

(* ------------------------------------------------------------------ *)
(* void process::wait()                                                *)
(* ------------------------------------------------------------------ *)

\* a wait() that forgets to announce itself before it drops the mutex
WaitVolunteer_StaysAlone == ALONE

\* the state a volunteer leaves behind before it drops the mutex
WaitVolunteer == AWAITED

\* unique_lock lock(_mtx_running); first test of the wait predicate
WaitCall(t) ==
    /\ pc[t] = "idle"
    /\ mtx = Free
    /\ mtx' = {t}
    /\ op' = [op EXCEPT ![t] = "wait"]
    /\ res' = [res EXCEPT ![t] = "none"]
    /\ pc' = [pc EXCEPT ![t] = IF NotAwaited THEN "w_test" ELSE "w_block"]
    /\ UNCHANGED <<running, exitcode, cvq, locals, kernel, reapLog, reaper, sigLog>>
    /\ UNCHANGED fdvars

\* _not_awaited.wait(): the predicate was false, release the mutex and block
WaitBlock(t) ==
    /\ pc[t] = "w_block"
    /\ mtx' = Free
    /\ cvq' = cvq \cup {t}
    /\ pc' = [pc EXCEPT ![t] = "w_blocked"]
    /\ UNCHANGED <<running, exitcode, op, res, locals, kernel, reapLog, reaper, sigLog>>
    /\ UNCHANGED fdvars

\* _not_awaited.wait(): woken, re-acquire the mutex and test the predicate again
WaitRelock(t) ==
    /\ pc[t] = "w_relock"
    /\ mtx = Free
    /\ mtx' = {t}
    /\ pc' = [pc EXCEPT ![t] = IF NotAwaited THEN "w_test" ELSE "w_block"]
    /\ UNCHANGED <<running, exitcode, cvq, op, res, locals, kernel, reapLog, reaper, sigLog>>
    /\ UNCHANGED fdvars

\* if ( _running == ALONE ) { _running = AWAITED; lock.unlock(); ... } else return
WaitTest(t) ==
    /\ pc[t] = "w_test"
    /\ mtx' = Free
    /\ IF running = ALONE
       THEN /\ running' = WaitVolunteer
            /\ pc' = [pc EXCEPT ![t] = "w_reap"]
            /\ UNCHANGED <<res, locals>>
       ELSE /\ pc' = [pc EXCEPT ![t] = "idle"]
            /\ res' = [res EXCEPT ![t] = "void"]
            /\ DropLocals(t)
            /\ UNCHANGED running
    /\ UNCHANGED <<exitcode, cvq, op, kernel, reapLog, reaper, sigLog>>
    /\ UNCHANGED fdvars

\* int wpid = ::waitpid(pid, &status, 0);
WaitReap(t) ==
    /\ pc[t] = "w_reap"
    /\ \/ Reaped(t, "w_lock")
       \/ NoChild(t, "w_lock")
       \/ Interrupted(t, "w_lock")
    /\ UNCHANGED <<running, exitcode, mtx, cvq, op, res, rem, dt, sig, sigLog>>
    /\ UNCHANGED fdvars

\* lock.lock(); decode the status into _exitcode
WaitStore(t) ==
    /\ pc[t] = "w_lock"
    /\ mtx = Free
    /\ mtx' = {t}
    /\ exitcode' = DecodeWait(exitcode, wpid[t], status[t])
    /\ pc' = [pc EXCEPT ![t] = "w_done"]
    /\ UNCHANGED <<running, cvq, op, res, locals, kernel, reapLog, reaper, sigLog>>
    /\ UNCHANGED fdvars

\* _running = DONE; _not_awaited.notify_all(); return (the lock is released)
WaitDone(t) ==
    /\ pc[t] = "w_done"
    /\ running' = DONE
    /\ cvq' = {}
    /\ pc' = [NotifyAll(pc) EXCEPT ![t] = "idle"]
    /\ mtx' = Free
    /\ res' = [res EXCEPT ![t] = "void"]
    /\ DropLocals(t)
    /\ UNCHANGED <<exitcode, op, kernel, reapLog, reaper, sigLog>>
    /\ UNCHANGED fdvars

(* ------------------------------------------------------------------ *)
(* bool process::wait(const std::chrono::milliseconds& timeout)        *)
(* ------------------------------------------------------------------ *)

\* the state a timed volunteer leaves behind before it drops the mutex
TimedVolunteer == AWAITED

\* a dt that doubles for ever
NextDt_Unbounded(d) == d * 2

\* the value of dt after a sleep: if ( dt < 64ms ) dt *= 2;
NextDt(d) == IF d < MaxDt THEN d * 2 ELSE d

\* when = now + timeout; unique_lock lock(_mtx_running); first test of the predicate
TimedCall(t, timeout) ==
    /\ pc[t] = "idle"
    /\ mtx = Free
    /\ mtx' = {t}
    /\ op' = [op EXCEPT ![t] = "twait"]
    /\ res' = [res EXCEPT ![t] = "none"]
    /\ rem' = [rem EXCEPT ![t] = timeout]
    /\ pc' = [pc EXCEPT ![t] = IF NotAwaited THEN "tw_test" ELSE "tw_block"]
    /\ UNCHANGED <<running, exitcode, cvq, wpid, status, dt, sig, kernel,
                   reapLog, reaper, sigLog>>
    /\ UNCHANGED fdvars

\* _not_awaited.wait_for(): the predicate was false, release the mutex and block
TimedBlock(t) ==
    /\ pc[t] = "tw_block"
    /\ mtx' = Free
    /\ cvq' = cvq \cup {t}
    /\ pc' = [pc EXCEPT ![t] = "tw_blocked"]
    /\ UNCHANGED <<running, exitcode, op, res, locals, kernel, reapLog, reaper, sigLog>>
    /\ UNCHANGED fdvars

\* _not_awaited.wait_for(): the timeout passes while the thread is blocked
TimedTimeout(t) ==
    /\ pc[t] = "tw_blocked"
    /\ t \in cvq
    /\ cvq' = cvq \ {t}
    /\ rem' = [rem EXCEPT ![t] = 0]
    /\ pc' = [pc EXCEPT ![t] = "tw_expired"]
    /\ UNCHANGED <<running, exitcode, mtx, op, res, wpid, status, dt, sig, kernel,
                   reapLog, reaper, sigLog>>
    /\ UNCHANGED fdvars

\* a wait_for() that takes the baton away from the reaper when it times out
TimedExpired_TakesBaton(t) ==
    /\ pc[t] = "tw_expired"
    /\ mtx = Free
    /\ mtx' = Free
    /\ running' = IF NotAwaited THEN running ELSE ALONE
    /\ pc' = [pc EXCEPT ![t] = "idle"]
    /\ res' = [res EXCEPT ![t] = "false"]
    /\ DropLocals(t)
    /\ UNCHANGED <<exitcode, cvq, op, kernel, reapLog, reaper, sigLog>>
    /\ UNCHANGED fdvars

\* wait_for() after its timeout: re-acquire the mutex and return the predicate;
\* if ( !wait_for(...) ) return false;
TimedExpired(t) ==
    /\ pc[t] = "tw_expired"
    /\ mtx = Free
    /\ IF NotAwaited
       THEN /\ mtx' = {t}
            /\ pc' = [pc EXCEPT ![t] = "tw_test"]
            /\ UNCHANGED <<res, locals>>
       ELSE /\ mtx' = Free
            /\ pc' = [pc EXCEPT ![t] = "idle"]
            /\ res' = [res EXCEPT ![t] = "false"]
            /\ DropLocals(t)
    /\ UNCHANGED <<running, exitcode, cvq, op, kernel, reapLog, reaper, sigLog>>
    /\ UNCHANGED fdvars

\* wait_for(): woken in time; some of the timeout has passed meanwhile
TimedRelock(t) ==
    /\ pc[t] = "tw_relock"
    /\ mtx = Free
    /\ mtx' = {t}
    /\ \E left \in (IF rem[t] < 0 THEN {rem[t]} ELSE 0..rem[t]) :
          rem' = [rem EXCEPT ![t] = left]
    /\ pc' = [pc EXCEPT ![t] = IF NotAwaited THEN "tw_test" ELSE "tw_block"]
    /\ UNCHANGED <<running, exitcode, cvq, op, res, wpid, status, dt, sig, kernel,
                   reapLog, reaper, sigLog>>
    /\ UNCHANGED fdvars

\* a loop that looks at the budget before its first ::waitpid()
TimedTest_BudgetFirst(t) ==
    /\ pc[t] = "tw_test"
    /\ mtx' = Free
    /\ IF running = ALONE
       THEN /\ running' = TimedVolunteer
            /\ dt' = [dt EXCEPT ![t] = 1]
            /\ pc' = [pc EXCEPT ![t] = IF rem[t] <= 0 THEN "tw_giveup" ELSE "tw_reap"]
            /\ UNCHANGED <<res, wpid, status, rem, sig>>
       ELSE /\ pc' = [pc EXCEPT ![t] = "idle"]
            /\ res' = [res EXCEPT ![t] = "true"]
            /\ DropLocals(t)
            /\ UNCHANGED running
    /\ UNCHANGED <<exitcode, cvq, op, kernel, reapLog, reaper, sigLog>>
    /\ UNCHANGED fdvars

\* if ( _running == ALONE ) { _running = AWAITED; lock.unlock(); dt = 1ms ... }
\* else return true
TimedTest(t) ==
    /\ pc[t] = "tw_test"
    /\ mtx' = Free
    /\ IF running = ALONE
       THEN /\ running' = TimedVolunteer
            /\ dt' = [dt EXCEPT ![t] = 1]
            /\ pc' = [pc EXCEPT ![t] = "tw_reap"]
            /\ UNCHANGED <<res, wpid, status, rem, sig>>
       ELSE /\ pc' = [pc EXCEPT ![t] = "idle"]
            /\ res' = [res EXCEPT ![t] = "true"]
            /\ DropLocals(t)
            /\ UNCHANGED running
    /\ UNCHANGED <<exitcode, cvq, op, kernel, reapLog, reaper, sigLog>>
    /\ UNCHANGED fdvars

\* (wpid = ::waitpid(pid, &status, WNOHANG)) == 0 ? and, if so, remaining <= 0ms ?
TimedReap(t) ==
    /\ pc[t] = "tw_reap"
    /\ \/ Reaped(t, "tw_lock")
       \/ NoChild(t, "tw_lock")
       \/ /\ child = "running"
          /\ wpid' = [wpid EXCEPT ![t] = 0]
          /\ pc' = [pc EXCEPT ![t] = IF rem[t] <= 0 THEN "tw_giveup" ELSE "tw_sleep"]
          /\ UNCHANGED <<status, kernel, reapLog, reaper>>
    /\ UNCHANGED <<running, exitcode, mtx, cvq, op, res, rem, dt, sig, sigLog>>
    /\ UNCHANGED fdvars

\* std::this_thread::sleep_for(std::min(dt, remaining)); if ( dt < 64ms ) dt *= 2;
TimedSleep(t) ==
    /\ pc[t] = "tw_sleep"
    /\ rem' = [rem EXCEPT ![t] = rem[t] - Min(dt[t], rem[t])]
    /\ dt' = [dt EXCEPT ![t] = NextDt(dt[t])]
    /\ pc' = [pc EXCEPT ![t] = "tw_reap"]
    /\ UNCHANGED <<running, exitcode, mtx, cvq, op, res, wpid, status, sig, kernel,
                   reapLog, reaper, sigLog>>
    /\ UNCHANGED fdvars

\* _running = ALONE;  (the mutex is not held here)
TimedGiveUp(t) ==
    /\ pc[t] = "tw_giveup"
    /\ running' = ALONE
    /\ pc' = [pc EXCEPT ![t] = "tw_notify"]
    /\ UNCHANGED <<exitcode, mtx, cvq, op, res, locals, kernel, reapLog, reaper, sigLog>>
    /\ UNCHANGED fdvars

\* _not_awaited.notify_one(); return false;
TimedNotify(t) ==
    /\ pc[t] = "tw_notify"
    /\ \/ /\ cvq = {}
          /\ pc' = [pc EXCEPT ![t] = "idle"]
          /\ UNCHANGED cvq
       \/ \E u \in cvq :
            /\ cvq' = cvq \ {u}
            /\ pc' = [WakeIn(pc, {u}) EXCEPT ![t] = "idle"]
    /\ res' = [res EXCEPT ![t] = "false"]
    /\ DropLocals(t)
    /\ UNCHANGED <<running, exitcode, mtx, op, kernel, reapLog, reaper, sigLog>>
    /\ UNCHANGED fdvars

\* lock.lock(); decode the status into _exitcode
TimedStore(t) ==
    /\ pc[t] = "tw_lock"
    /\ mtx = Free
    /\ mtx' = {t}
    /\ exitcode' = DecodeTimed(exitcode, wpid[t], status[t])
    /\ pc' = [pc EXCEPT ![t] = "tw_done"]
    /\ UNCHANGED <<running, cvq, op, res, locals, kernel, reapLog, reaper, sigLog>>
    /\ UNCHANGED fdvars

\* _running = DONE; _not_awaited.notify_all(); return true (the lock is released)
TimedDone(t) ==
    /\ pc[t] = "tw_done"
    /\ running' = DONE
    /\ cvq' = {}
    /\ pc' = [NotifyAll(pc) EXCEPT ![t] = "idle"]
    /\ mtx' = Free
    /\ res' = [res EXCEPT ![t] = "true"]
    /\ DropLocals(t)
    /\ UNCHANGED <<exitcode, op, kernel, reapLog, reaper, sigLog>>
    /\ UNCHANGED fdvars

(* ------------------------------------------------------------------ *)
(* bool process::poll() and void process::kill(int sig)                *)
(* ------------------------------------------------------------------ *)

\* a kill() that sends the signal whatever poll() returned
AfterPoll_KillAnyway(t, k, b, p, s) ==
    /\ pc' = [p EXCEPT ![t] = IF k = "kill" THEN "k_send" ELSE "idle"]
    /\ res' = [res EXCEPT ![t] = IF k = "kill" THEN "none"
                                 ELSE (IF b THEN "true" ELSE "false")]
    /\ sig' = [sig EXCEPT ![t] = IF k = "kill" THEN s ELSE 0]
    /\ wpid' = [wpid EXCEPT ![t] = 0]
    /\ status' = [status EXCEPT ![t] = 0]
    /\ UNCHANGED <<rem, dt>>

\* how poll() ends for its caller k ("poll": the user, "kill": process::kill):
\*   return _running == DONE;    and in kill():  if ( !poll() ) ::kill(pid, sig)
AfterPoll(t, k, b, p, s) ==
    /\ pc' = [p EXCEPT ![t] = IF k = "kill" /\ ~b THEN "k_send" ELSE "idle"]
    /\ res' = [res EXCEPT ![t] = IF k = "kill"
                                 THEN (IF b THEN "void" ELSE "none")
                                 ELSE (IF b THEN "true" ELSE "false")]
    /\ sig' = [sig EXCEPT ![t] = IF k = "kill" /\ ~b THEN s ELSE 0]
    /\ wpid' = [wpid EXCEPT ![t] = 0]
    /\ status' = [status EXCEPT ![t] = 0]
    /\ UNCHANGED <<rem, dt>>

\* a poll() that asks ::waitpid() whenever nobody else is waiting, DONE or not
PollEnter_ReapsAgain(t, k, s) ==
    /\ pc[t] = "idle"
    /\ mtx = Free
    /\ op' = [op EXCEPT ![t] = k]
    /\ IF running # AWAITED
       THEN /\ mtx' = {t}
            /\ pc' = [pc EXCEPT ![t] = "p_reap"]
            /\ res' = [res EXCEPT ![t] = "none"]
            /\ sig' = [sig EXCEPT ![t] = s]
            /\ UNCHANGED <<wpid, status, rem, dt>>
       ELSE /\ mtx' = Free
            /\ AfterPoll(t, k, running = DONE, pc, s)
    /\ UNCHANGED <<running, exitcode, cvq, kernel, reapLog, reaper, sigLog>>
    /\ UNCHANGED fdvars

\* lock_guard lock(_mtx_running); if ( _running == ALONE ) ... return _running == DONE;
PollEnter(t, k, s) ==
    /\ pc[t] = "idle"
    /\ mtx = Free
    /\ op' = [op EXCEPT ![t] = k]
    /\ IF running = ALONE
       THEN /\ mtx' = {t}
            /\ pc' = [pc EXCEPT ![t] = "p_reap"]
            /\ res' = [res EXCEPT ![t] = "none"]
            /\ sig' = [sig EXCEPT ![t] = s]
            /\ UNCHANGED <<wpid, status, rem, dt>>
       ELSE /\ mtx' = Free
            /\ AfterPoll(t, k, running = DONE, pc, s)
    /\ UNCHANGED <<running, exitcode, cvq, kernel, reapLog, reaper, sigLog>>
    /\ UNCHANGED fdvars

\* bool process::poll()
PollCall(t) == PollEnter(t, "poll", 0)

\* void process::kill(int sig): if ( !poll() ) ...
KillCall(t, s) == PollEnter(t, "kill", s)

\* int wpid = ::waitpid(pid, &status, WNOHANG);  with wpid != 0
PollReap(t) ==
    /\ pc[t] = "p_reap"
    /\ \/ Reaped(t, "p_store")
       \/ NoChild(t, "p_store")
    /\ UNCHANGED <<running, exitcode, mtx, cvq, op, res, rem, dt, sig, sigLog>>
    /\ UNCHANGED fdvars

\* int wpid = ::waitpid(pid, &status, WNOHANG); if ( wpid == 0 ) return false;
PollRunning(t) ==
    /\ pc[t] = "p_reap"
    /\ child = "running"
    /\ mtx' = Free
    /\ AfterPoll(t, op[t], FALSE, pc, sig[t])
    /\ UNCHANGED <<running, exitcode, cvq, op, kernel, reapLog, reaper, sigLog>>
    /\ UNCHANGED fdvars

\* decode the status into _exitcode (the mutex is held since poll() began)
PollStore(t) ==
    /\ pc[t] = "p_store"
    /\ exitcode' = DecodePoll(exitcode, wpid[t], status[t])
    /\ pc' = [pc EXCEPT ![t] = "p_done"]
    /\ UNCHANGED <<running, mtx, cvq, op, res, locals, kernel, reapLog, reaper, sigLog>>
    /\ UNCHANGED fdvars

\* _running = DONE; _not_awaited.notify_all(); return _running == DONE;
PollDone(t) ==
    /\ pc[t] = "p_done"
    /\ running' = DONE
    /\ cvq' = {}
    /\ mtx' = Free
    /\ AfterPoll(t, op[t], TRUE, NotifyAll(pc), sig[t])
    /\ UNCHANGED <<exitcode, op, kernel, reapLog, reaper, sigLog>>
    /\ UNCHANGED fdvars

\* the object the calling thread was handed: the variables running and exitcode
\* are its _running and _exitcode
Shared == 1

\* the pid ::kill(pid, sig) reads: _pid of the object the call was made on, which
\* a move constructor running meanwhile has set to 0
KillPid == IF procs[Shared].st = "none" THEN ChildPid ELSE procs[Shared].pid

\* a signal number ::kill() rejects (EINVAL)
BadSignal == -1

\* a kill() that ignores what ::kill() returns
KillSend_Silent(t) ==
    /\ pc[t] = "k_send"
    /\ sigLog' = sigLog
    /\ res' = [res EXCEPT ![t] = "void"]
    /\ pc' = [pc EXCEPT ![t] = "idle"]
    /\ DropLocals(t)
    /\ UNCHANGED <<running, exitcode, mtx, cvq, op, kernel, reapLog, reaper>>
    /\ UNCHANGED fdvars

\* if ( ::kill(pid, sig) == -1 ) throw std::system_error(errno, ...);
\* the kernel looks at the signal number first (EINVAL), then for the process
\* (ESRCH); pid 0 names every process of the caller's process group, the caller
\* itself included
KillSend(t) ==
    /\ pc[t] = "k_send"
    /\ sigLog' = IF sig[t] = BadSignal THEN sigLog
                 ELSE sigLog \cup {IF KillPid = 0 THEN "group" ELSE child}
    /\ \/ /\ sig[t] = BadSignal
          /\ res' = [res EXCEPT ![t] = "error"]
          /\ UNCHANGED kernel
       \/ /\ sig[t] # BadSignal
          /\ child = "running"
          /\ \/ /\ child' = "zombie"
                /\ cstatus' = W_SIGNALED(sig[t])
             \/ /\ sig[t] # SIGKILL
                /\ UNCHANGED kernel
          /\ res' = [res EXCEPT ![t] = "void"]
       \/ /\ sig[t] # BadSignal
          /\ child = "zombie"
          /\ res' = [res EXCEPT ![t] = "void"]
          /\ UNCHANGED kernel
       \/ /\ sig[t] # BadSignal
          /\ child = "reaped"
          /\ res' = [res EXCEPT ![t] = IF KillPid = 0 THEN "void" ELSE "error"]
          /\ UNCHANGED kernel
    /\ pc' = [pc EXCEPT ![t] = "idle"]
    /\ DropLocals(t)
    /\ UNCHANGED <<running, exitcode, mtx, cvq, op, reapLog, reaper>>
    /\ UNCHANGED fdvars

(* ------------------------------------------------------------------ *)
(* The condition variable may wake a thread for no reason              *)
(* ------------------------------------------------------------------ *)

SpuriousWake(t) ==
    /\ t \in cvq
    /\ cvq' = cvq \ {t}
    /\ pc' = WakeIn(pc, {t})
    /\ UNCHANGED <<running, exitcode, mtx, op, res, locals, kernel, reapLog, reaper, sigLog>>
    /\ UNCHANGED fdvars

(* ------------------------------------------------------------------ *)
(* The kernel: file tables                                             *)
(* ------------------------------------------------------------------ *)

\* what a handle refers to: <<kind, number>>
Closed == <<"closed", 0>>

\* the endpoints behind the parent's standard streams 0, 1, 2
Std(i) == <<"std", i>>

\* /dev/null
NullDev == <<"null", 0>>

\* a file the caller has opened itself
UserFile == <<"file", 0>>

\* the reading and the writing end of pipe k
PipeRd(k) == <<"rd", k>>

PipeWr(k) == <<"wr", k>>

\* the handles of table tab that are not open
FreeFds(tab) == {n \in Fds : tab[n] = Closed}

\* the kernel hands out the lowest free handle
LowestFree(tab) == CHOOSE n \in FreeFds(tab) : \A m \in FreeFds(tab) : n <= m

\* a ::close() that closes nothing
SysClose_Keeps(ft, fd) == ft

\* ::close(fd): EBADF changes nothing
SysClose(ft, fd) ==
    IF fd \in Fds /\ ft.tab[fd] # Closed
    THEN [tab |-> [ft.tab EXCEPT ![fd] = Closed], cx |-> ft.cx \ {fd}]
    ELSE ft

\* ::dup2(old, new): nothing happens if old == new; the new handle is not close-on-exec
SysDup2(ft, old, new) ==
    IF old = new
    THEN ft
    ELSE [tab |-> [ft.tab EXCEPT ![new] = ft.tab[old]], cx |-> ft.cx \ {new}]

\* ::open(...) or ::dup(...): endpoint e at the lowest free handle, not close-on-exec
SysOpen(ft, e) ==
    [tab |-> [ft.tab EXCEPT ![LowestFree(ft.tab)] = e], cx |-> ft.cx \ {LowestFree(ft.tab)}]

\* execvp(): the handles marked close-on-exec are closed
SysExec(ft) ==
    [tab |-> [n \in Fds |-> IF n \in ft.cx THEN Closed ELSE ft.tab[n]], cx |-> {}]

(* ------------------------------------------------------------------ *)
(* template <bool Back> class _pipe                                    *)
(* ------------------------------------------------------------------ *)

\* a _pipe that takes the handle it is given for its far end too
PipeCtor_FarIsNear(ft, fd, back, k) ==
    IF fd >= 0
    THEN [ft |-> ft, near |-> fd, far |-> fd]
    ELSE LET r == LowestFree(ft.tab)
             t1 == [ft.tab EXCEPT ![r] = PipeRd(k)]
             w == LowestFree(t1)
             t2 == [t1 EXCEPT ![w] = PipeWr(k)]
         IN  [ft |-> [tab |-> t2, cx |-> ft.cx \cup {r, w}],
              near |-> IF back THEN w ELSE r,
              far |-> IF back THEN r ELSE w]

\* _pipe<Back>::_pipe(int fd): a redirection to fd if fd >= 0, else pipe k made by
\* ::pipe2(end, O_CLOEXEC); near = end[Back], far = end[!Back]
\* a _pipe that calls ::pipe2() without O_CLOEXEC
PipeCtor_NoCloexec(ft, fd, back, k) ==
    IF fd >= 0
    THEN [ft |-> ft, near |-> fd, far |-> -1]
    ELSE LET r == LowestFree(ft.tab)
             t1 == [ft.tab EXCEPT ![r] = PipeRd(k)]
             w == LowestFree(t1)
             t2 == [t1 EXCEPT ![w] = PipeWr(k)]
         IN  [ft |-> [tab |-> t2, cx |-> ft.cx],
              near |-> IF back THEN w ELSE r,
              far |-> IF back THEN r ELSE w]

PipeCtor(ft, fd, back, k) ==
    IF fd >= 0
    THEN [ft |-> ft, near |-> fd, far |-> -1]
    ELSE LET r == LowestFree(ft.tab)
             t1 == [ft.tab EXCEPT ![r] = PipeRd(k)]
             w == LowestFree(t1)
             t2 == [t1 EXCEPT ![w] = PipeWr(k)]
         IN  [ft |-> [tab |-> t2, cx |-> ft.cx \cup {r, w}],
              near |-> IF back THEN w ELSE r,
              far |-> IF back THEN r ELSE w]

\* _pipe<Back>::~_pipe(): if ( far >= 0 ) ::close(near);
\* a ~_pipe() that closes nothing
PipeDtor_KeepsNear(ft, pipe) == ft

PipeDtor(ft, pipe) == IF pipe.far >= 0 THEN SysClose(ft, pipe.near) ELSE ft

\* the pipe end ~_pipe() issues a close() for, if any
PipeDtorEnds(ft, pipe) == IF pipe.far >= 0 THEN {ft.tab[pipe.near]} ELSE {}

\* void _pipe<Back>::dup2(int fd): ::dup2(near, fd)
PipeDup2(ft, pipe, fd) == SysDup2(ft, pipe.near, fd)

\* void _pipe<Back>::dup2(): assert( near is 0, 1 or 2 ); near = ::dup(near);
\* from is the near the assertion looks at
PipeDup(ft, pipe) ==
    [ft |-> SysOpen(ft, ft.tab[pipe.near]), near |-> LowestFree(ft.tab), far |-> pipe.far,
     from |-> pipe.near]

\* a close() that closes the near end of a pipe of its own, and leaves a handle
\* that was given alone
PipeClose_Owned(ft, pipe) ==
    IF pipe.far >= 0 /\ pipe.near > STDERR THEN SysClose(ft, pipe.near) ELSE ft

\* void _pipe<Back>::close(): if ( far < 0 && near > STDERR_FILENO ) ::close(near);
PipeClose(ft, pipe) ==
    IF pipe.far < 0 /\ pipe.near > STDERR THEN SysClose(ft, pipe.near) ELSE ft

(* ------------------------------------------------------------------ *)
(* process::process(int fd0, const char* argv[], int fd1, int fd2)     *)
(* ------------------------------------------------------------------ *)

\* a process object that does not exist (yet, or any more)
NoProc(st) ==
    [st |-> st, pid |-> 0, running |-> DONE, exitcode |-> UNKNOWN,
     stdin |-> DEVNULL, stdout |-> DEVNULL, stderr |-> DEVNULL,
     own |-> <<Closed, Closed, Closed>>]

\* a channel that was not constructed
NotBuilt == [near |-> -1, far |-> -1]

\* the two members of a channel: near and far
Ends(pipe) == [near |-> pipe.near, far |-> pipe.far]

\* a child that was never made
NoKid == [tab |-> [n \in Fds |-> Closed], pre |-> [n \in Fds |-> Closed],
          red |-> [n \in Fds |-> Closed],
          chan |-> <<NotBuilt, NotBuilt, NotBuilt>>, dups |-> {},
          want |-> <<Closed, Closed, Closed>>, obj |-> 0,
          desc |-> <<DEVNULL, DEVNULL, DEVNULL>>]

\* the pipes of process object p: for its stdin, stdout and stderr
PipeId(p, slot) == 3 * (p - 1) + slot

\* process::_fd_or_devnull(fd), with dn the handle of /dev/null
FdOrDevnull(fd, dn) == IF fd = DEVNULL THEN dn ELSE fd

\* case 6 without the duplicate: stdout's near stays where it is
Case6_NoDup(ft, pout) == [ft |-> ft, near |-> pout.near, far |-> pout.far, from |-> -1]

\* a branch that duplicates stdout's near whatever it is
Case6_AlwaysDup(ft, pout) == PipeDup(ft, pout)

\* case 6 (swapping): if ( pipe_out.near == STDERR ) pipe_out.dup2();
\* from = -1 when dup2() was not called
Case6(ft, pout) ==
    IF pout.near = STDERR
    THEN PipeDup(ft, pout)
    ELSE [ft |-> ft, near |-> pout.near, far |-> pout.far, from |-> -1]

\* the child redirects its standard streams; dups are the calls of dup2() it
\* makes: the slot of the channel, the near the assertion sees, stderr's near
Redirect(ft, pin, pout, perr) ==
    LET f1 == PipeDup2(ft, pin, STDIN)
    IN  IF perr.near = STDOUT
        THEN LET o == Case6(f1, pout)
                 f2 == PipeDup2(o.ft, perr, STDERR)
                 f3 == PipeDup2(f2, o, STDOUT)
             IN  [ft |-> f3, pout |-> o,
                  dups |-> IF o.from = -1 THEN {}
                           ELSE {[slot |-> 2, near |-> o.from, err |-> perr.near]}]
        ELSE LET f2 == PipeDup2(f1, pout, STDOUT)
                 f3 == PipeDup2(f2, perr, STDERR)
             IN  [ft |-> f3, pout |-> pout, dups |-> {}]

\* the child branch up to execvp(): redirect, close all fds but stdin/stdout/stderr
ChildBeforeExec(ft, pin, pout, perr) ==
    LET r == Redirect(ft, pin, pout, perr)
        c1 == PipeClose(r.ft, pin)
        c2 == PipeClose(c1, r.pout)
        c3 == PipeClose(c2, perr)
    IN  c3

\* the child branch: ... and execvp()
ChildBranch(ft, pin, pout, perr) == SysExec(ChildBeforeExec(ft, pin, pout, perr))

\* the handles a slot may be given: a standard stream, or any handle the caller
\* holds open
Handles == {n \in Fds : files.tab[n] # Closed}

\* the handles the construction may need at most: /dev/null, three pipes, one dup
Needed(fd0, fd1, fd2) ==
    (IF DEVNULL \in {fd0, fd1, fd2} /\ ~devnull.once THEN 1 ELSE 0)
    + 2 * Cardinality({i \in 1..3 : <<fd0, fd1, fd2>>[i] = PIPE}) + 1

\* no constructor call has just thrown
NoThrow == [what |-> "none", open |-> {}]

\* one channel: _pipe<Back> x = _fd_or_devnull(fd); dn is the static devnull and
\* its once_flag as they stand before
Channel(ft, dn, fd, back, k) ==
    LET open == fd = DEVNULL /\ ~dn.once
        d == IF open THEN [once |-> TRUE, fd |-> LowestFree(ft.tab)] ELSE dn
        f0 == IF open THEN SysOpen(ft, NullDev) ELSE ft
        c == PipeCtor(f0, FdOrDevnull(fd, d.fd), back, k)
    IN  [ft |-> c.ft, near |-> c.near, far |-> c.far, dn |-> d]

\* a pipe_err that is given a pipe of its own whatever fd2 says
ChannelErr_OwnPipe(pout, fd2, k) == Channel(pout.ft, pout.dn, PIPE, TRUE, k)

\* _pipe<true> pipe_err = ( fd2 == SAMEOUT ? pipe_out.near : _fd_or_devnull(fd2) );
ChannelErr(pout, fd2, k) ==
    IF fd2 = SAMEOUT
    THEN [ft |-> pout.ft, near |-> pout.near, far |-> -1, dn |-> pout.dn]
    ELSE Channel(pout.ft, pout.dn, fd2, TRUE, k)

\* the caller's next process object is p
FreeSlot(p) ==
    /\ kid = NoKid
    /\ procs[p].st = "none"
    /\ \A q \in Procs : q < p => procs[q].st # "none"

\* the caller may make its next process object, p
CanSpawn(p) == spawns < MaxSpawns /\ FreeSlot(p)

\* the pipe end behind handle h of table ft
End(ft, h) == IF h >= 0 THEN ft.tab[h] ELSE Closed

\* the constructor, fork() succeeding: parent and child branch
Construct(p, fd0, fd1, fd2) ==
    /\ FreeSlot(p)
    /\ spawns' = spawns + 1
    /\ fd0 # SAMEOUT
    /\ fd1 # SAMEOUT
    /\ Cardinality(FreeFds(files.tab)) >= Needed(fd0, fd1, fd2)
    /\ \E pin \in {Channel(files, devnull, fd0, FALSE, PipeId(p, 0))} :
       \E pout \in {Channel(pin.ft, pin.dn, fd1, TRUE, PipeId(p, 1))} :
       \E perr \in {ChannelErr(pout, fd2, PipeId(p, 2))} :
       \E nears \in {PipeDtorEnds(perr.ft, perr) \cup PipeDtorEnds(perr.ft, pout)
                        \cup PipeDtorEnds(perr.ft, pin)} :
           /\ devnull' = perr.dn
           /\ kid' = [tab |-> ChildBranch(perr.ft, pin, pout, perr).tab,
                      pre |-> ChildBeforeExec(perr.ft, pin, pout, perr).tab,
                      red |-> Redirect(perr.ft, pin, pout, perr).ft.tab,
                      chan |-> <<Ends(pin), Ends(Redirect(perr.ft, pin, pout, perr).pout),
                                 Ends(perr)>>,
                      dups |-> Redirect(perr.ft, pin, pout, perr).dups,
                      want |-> <<perr.ft.tab[pin.near], perr.ft.tab[pout.near],
                                 perr.ft.tab[perr.near]>>,
                      obj |-> p,
                      desc |-> <<fd0, fd1, fd2>>]
           /\ procs' = [procs EXCEPT ![p] =
                         [st |-> "live", pid |-> ChildPid, running |-> ALONE,
                          exitcode |-> UNKNOWN,
                          stdin |-> pin.far, stdout |-> pout.far, stderr |-> perr.far,
                          own |-> <<End(perr.ft, pin.far), End(perr.ft, pout.far),
                                    End(perr.ft, perr.far)>>]]
           /\ files' = PipeDtor(PipeDtor(PipeDtor(perr.ft, perr), pout), pin)
           /\ closedAgain' = closedAgain \cup (nears \cap closedOnce)
           /\ closedOnce' = closedOnce \cup nears
    /\ thrown' = NoThrow
    /\ UNCHANGED waitvars

\* the constructor throwing std::system_error: at = 1, 2, 3 when ::pipe2() fails
\* for pipe_in, pipe_out, pipe_err, at = 4 when ::fork() returns -1; the channels
\* built so far are destroyed by the unwinding, the process object never exists
ConstructThrows(p, fd0, fd1, fd2, at) ==
    /\ FreeSlot(p)
    /\ spawns' = spawns + 1
    /\ fd0 # SAMEOUT
    /\ fd1 # SAMEOUT
    /\ at <= 3 => <<fd0, fd1, fd2>>[at] = PIPE
    /\ Cardinality(FreeFds(files.tab)) >= Needed(fd0, fd1, fd2)
    /\ \E pin \in {Channel(files, devnull, fd0, FALSE, PipeId(p, 0))} :
       \E pout \in {Channel(pin.ft, pin.dn, fd1, TRUE, PipeId(p, 1))} :
       \E perr \in {ChannelErr(pout, fd2, PipeId(p, 2))} :
       \E last \in {IF at = 1 THEN [ft |-> files, dn |-> devnull]
                    ELSE [ft |-> <<pin, pout, perr>>[at - 1].ft,
                          dn |-> <<pin, pout, perr>>[at - 1].dn]} :
       \E b1 \in {IF 1 < at THEN pin ELSE NotBuilt} :
       \E b2 \in {IF 2 < at THEN pout ELSE NotBuilt} :
       \E b3 \in {IF 3 < at THEN perr ELSE NotBuilt} :
       \E nears \in {PipeDtorEnds(last.ft, b3) \cup PipeDtorEnds(last.ft, b2)
                        \cup PipeDtorEnds(last.ft, b1)} :
           /\ devnull' = last.dn
           /\ files' = PipeDtor(PipeDtor(PipeDtor(last.ft, b3), b2), b1)
           /\ closedAgain' = closedAgain \cup (nears \cap closedOnce)
           /\ closedOnce' = closedOnce \cup nears
    /\ procs' = [procs EXCEPT ![p] = NoProc("failed")]
    /\ thrown' = [what |-> IF at = 4 THEN "fork" ELSE "pipe2", open |-> Handles]
    /\ UNCHANGED kid
    /\ UNCHANGED waitvars

(* ------------------------------------------------------------------ *)
(* process::process(process&& p), process::~process(), and the caller  *)
(* ------------------------------------------------------------------ *)

\* the pipe ends of object o that its handles still stand for
FarEnds(o) ==
    {o.own[i] : i \in {i \in 1..3 : <<o.stdin, o.stdout, o.stderr>>[i] >= 0}}

\* process q { std::move(p) };
Move(p, q) ==
    /\ procs[p].st = "live"
    /\ procs[q].st = "none"
    /\ \A r \in Procs : r < q => procs[r].st # "none"
    /\ procs' = [procs EXCEPT ![q] = procs[p], ![p] = NoProc("live")]
    /\ kid' = NoKid
    /\ thrown' = NoThrow
    /\ UNCHANGED <<files, devnull, spawns, closedOnce, closedAgain, kids, trial, ctor>>
    /\ UNCHANGED waitvars

\* process::~process(): ::close(_stdin); ::close(_stdout); ::close(_stderr);
Destroy(p) ==
    /\ procs[p].st = "live"
    /\ files' = SysClose(SysClose(SysClose(files, procs[p].stdin), procs[p].stdout),
                         procs[p].stderr)
    /\ closedAgain' = closedAgain \cup (FarEnds(procs[p]) \cap closedOnce)
    /\ closedOnce' = closedOnce \cup FarEnds(procs[p])
    /\ procs' = [procs EXCEPT ![p] = NoProc("dead")]
    /\ kid' = NoKid
    /\ thrown' = NoThrow
    /\ UNCHANGED <<devnull, spawns, kids, trial, ctor>>
    /\ UNCHANGED waitvars

\* the caller wraps a far handle into an ofdstream/ifdstream and closes the stream:
\* the stream closes the handle, the process object keeps its number
StreamClose(p, i) ==
    /\ procs[p].st = "live"
    /\ <<procs[p].stdin, procs[p].stdout, procs[p].stderr>>[i] >= 0
    /\ procs[p].own[i] \notin closedOnce
    /\ files' = SysClose(files, <<procs[p].stdin, procs[p].stdout, procs[p].stderr>>[i])
    /\ closedOnce' = closedOnce \cup {procs[p].own[i]}
    /\ kid' = NoKid
    /\ thrown' = NoThrow
    /\ UNCHANGED <<devnull, procs, spawns, closedAgain, kids, trial, ctor>>
    /\ UNCHANGED waitvars

(* ------------------------------------------------------------------ *)
(* Specification of the handles                                        *)
(* ------------------------------------------------------------------ *)

\* no constructor call is under way, and one_time was never entered
NoCall == [at |-> "none", desc |-> <<DEVNULL, DEVNULL, DEVNULL>>]
NoCtor == [call |-> [t \in Threads |-> NoCall], active |-> NoThread, opened |-> 0, failed |-> 0]

\* the wait protocol at rest
WaitAtRest ==
    /\ running = ALONE
    /\ exitcode = UNKNOWN
    /\ mtx = Free
    /\ cvq = {}
    /\ pc = [t \in Threads |-> "idle"]
    /\ op = [t \in Threads |-> "none"]
    /\ res = [t \in Threads |-> "none"]
    /\ wpid = [t \in Threads |-> 0]
    /\ status = [t \in Threads |-> 0]
    /\ rem = [t \in Threads |-> 0]
    /\ dt = [t \in Threads |-> 0]
    /\ sig = [t \in Threads |-> 0]
    /\ child = "running"
    /\ cstatus = 0
    /\ reapLog = "none"
    /\ reaper = NoThread
    /\ sigLog = {}

\* no child was forked for the object yet
NotForked == [st |-> "none", in |-> Closed, holds |-> {}]

\* no comparison is going on
NoTrial == [phase |-> "off"]

\* the parent before it makes any process object: its standard streams are open,
\* and so is one file of its own; /dev/null was never asked for
FilesAtStart ==
    /\ files = [tab |-> [n \in Fds |-> IF n <= STDERR THEN Std(n)
                                       ELSE IF n = STDERR + 1 THEN UserFile
                                       ELSE Closed],
                cx |-> {}]
    /\ devnull = [once |-> FALSE, fd |-> 0]
    /\ procs = [p \in Procs |-> NoProc("none")]
    /\ kid = NoKid
    /\ spawns = 0
    /\ closedOnce = {}
    /\ closedAgain = {}
    /\ thrown = NoThrow
    /\ kids = [p \in Procs |-> NotForked]
    /\ ctor = NoCtor

\* what a slot may be given
Slots == {PIPE, DEVNULL} \cup Handles

\* the child goes on with the program it has exec'ed: its handles are its own
\* business from now on
ChildGoesOn ==
    /\ kid # NoKid
    /\ kid' = NoKid
    /\ UNCHANGED <<files, devnull, procs, spawns, closedOnce, closedAgain, thrown,
                   kids, trial, ctor>>
    /\ UNCHANGED waitvars

\* process p { fd0, argv, fd1, fd2 }; with any slots the caller may give
Spawn(p) ==
    /\ CanSpawn(p)
    /\ \E fd0, fd1 \in Slots : \E fd2 \in Slots \cup {SAMEOUT} :
          Construct(p, fd0, fd1, fd2)
    /\ UNCHANGED <<kids, trial, ctor>>

\* the same call, throwing
SpawnThrows(p) ==
    /\ CanSpawn(p)
    /\ \E fd0, fd1 \in Slots : \E fd2 \in Slots \cup {SAMEOUT} : \E at \in 1..4 :
          ConstructThrows(p, fd0, fd1, fd2, at)
    /\ UNCHANGED <<kids, trial, ctor>>

InitFd == WaitAtRest /\ FilesAtStart /\ trial = NoTrial

NextFd ==
    \/ \E p \in Procs : Spawn(p)
    \/ \E p \in Procs : SpawnThrows(p)
    \/ \E p, q \in Procs : Move(p, q)
    \/ \E p \in Procs : Destroy(p)
    \/ \E p \in Procs : \E i \in 1..3 : StreamClose(p, i)
    \/ ChildGoesOn

SpecFd == InitFd /\ [][NextFd]_vars

(* ------------------------------------------------------------------ *)
(* Specification of pipelines                                          *)
(* ------------------------------------------------------------------ *)

\* the pipe ends among the handles of table tab
PipeEnds(tab) == {e \in {tab[n] : n \in Fds} : e[1] \in {"rd", "wr"}}

\* the stdout handles of the objects at hand that are still open: what the
\* caller writes as  producer.stdout
OutHandles ==
    {procs[q].stdout : q \in {r \in Procs : /\ procs[r].st = "live"
                                             /\ procs[r].stdout >= 0
                                             /\ files.tab[procs[r].stdout] # Closed}}

\* process p { fd0, argv, fd1, fd2 }; as a stage of a pipeline: stdin is the
\* default, a new pipe or a producer's stdout; stdout is the parent's or a new
\* pipe; stderr is the default or goes with stdout.  The child runs from now on
\* with what it holds after execvp().
PipeSpawn(p) ==
    /\ FreeSlot(p)
    /\ \E fd0 \in {DEVNULL, PIPE} \cup OutHandles : \E fd1 \in {STDOUT, PIPE} :
       \E fd2 \in {DEVNULL, SAMEOUT} :
          Construct(p, fd0, fd1, fd2)
    /\ kids' = [kids EXCEPT ![p] = [st |-> "run", in |-> kid'.tab[STDIN],
                                    holds |-> PipeEnds(kid'.tab)]]
    /\ UNCHANGED <<trial, ctor>>

\* the pipe ends open somewhere besides child p: in the parent, or in another
\* child that runs
HeldBesides(p) ==
    PipeEnds(files.tab) \cup UNION {kids[q].holds : q \in Procs \ {p}}

\* read() on the child's stdin returns end-of-file: stdin is the reading end of a
\* pipe no writing end of which is open anywhere (the child's own copies, if its
\* stdout is that very pipe, apart)
AtEof(p) ==
    /\ kids[p].in[1] = "rd"
    /\ PipeWr(kids[p].in[2]) \notin HeldBesides(p)

\* the program of child p ends: one that reads a pipe ends at end-of-file, any
\* other ends in its own time; the kernel closes all its handles
KidExit(p) ==
    /\ kids[p].st = "run"
    /\ kids[p].in[1] = "rd" => AtEof(p)
    /\ kids' = [kids EXCEPT ![p] = [st |-> "exited", in |-> kids[p].in, holds |-> {}]]
    /\ UNCHANGED <<files, devnull, procs, kid, spawns, closedOnce, closedAgain, thrown,
                   trial, ctor>>
    /\ UNCHANGED waitvars

InitPipe == WaitAtRest /\ FilesAtStart /\ trial = NoTrial

NextPipe ==
    \/ \E p \in Procs : PipeSpawn(p)
    \/ ChildGoesOn
    \/ \E p \in Procs : KidExit(p)
    \/ \E p \in Procs : StreamClose(p, 1)
    \/ \E p \in Procs : Destroy(p)

SpecPipe == InitPipe /\ [][NextPipe]_vars

\* every program ends once it may
FairPipe == SpecPipe /\ \A p \in Procs : WF_vars(KidExit(p))

(* ------------------------------------------------------------------ *)
(* Specification of the wait protocol                                  *)
(* ------------------------------------------------------------------ *)

\* the parent's side right after process::process(): the child runs, _running = ALONE
Init == WaitAtRest /\ FilesAtStart /\ trial = NoTrial

\* the steps of a call that has begun
Step(t) ==
    \/ WaitBlock(t) \/ WaitRelock(t) \/ WaitTest(t) \/ WaitReap(t)
    \/ WaitStore(t) \/ WaitDone(t)
    \/ TimedBlock(t) \/ TimedTimeout(t) \/ TimedExpired(t) \/ TimedRelock(t)
    \/ TimedTest(t) \/ TimedReap(t) \/ TimedSleep(t) \/ TimedGiveUp(t)
    \/ TimedNotify(t) \/ TimedStore(t) \/ TimedDone(t)
    \/ PollReap(t) \/ PollRunning(t) \/ PollStore(t) \/ PollDone(t)
    \/ KillSend(t)

\* a thread begins a call
Call(t) ==
    \/ WaitCall(t)
    \/ \E timeout \in Timeouts : TimedCall(t, timeout)
    \/ PollCall(t)
    \/ \E s \in Signals : KillCall(t, s)

Next ==
    \/ \E t \in Threads : Call(t)
    \/ \E t \in Threads : Step(t)
    \/ \E t \in Threads : SpuriousWake(t)
    \/ \E code \in ExitCodes : ChildExit(code)
    \/ ChildExitAutoReaped

Spec == Init /\ [][Next]_vars

\* the scheduler runs every thread that can take a step of a call it is in
FairSpec == Spec /\ \A t \in Threads : WF_vars(Step(t))

(* ------------------------------------------------------------------ *)
(* poll() and wait(0ms), each run from the same state                  *)
(* ------------------------------------------------------------------ *)

\* the thread that makes the two calls, and a thread that may be inside a wait
Caller == 1

Peer == 2

\* the wait statuses a terminated child may leave
Statuses == {W_EXITCODE(c) : c \in ExitCodes} \cup {W_SIGNALED(s) : s \in Signals}

\* the child as the kernel may hold it while it is not reaped by the program:
\* running, a zombie with its status, or reaped by the kernel itself
Unreaped ==
    {[child |-> "running", cstatus |-> 0], [child |-> "reaped", cstatus |-> 0]}
        \cup {[child |-> "zombie", cstatus |-> c] : c \in Statuses}

\* the states a call may start from.  ALONE: nobody has looked at the child yet.
\* AWAITED: the peer is at its ::waitpid(), in wait() or in wait(timeout).
\* DONE: the peer's wait() has returned, having reaped the child, or having
\* been told there is no such child, or having been interrupted.
StartStates ==
    {[running |-> ALONE, exitcode |-> UNKNOWN, child |-> k.child, cstatus |-> k.cstatus,
      peer |-> "idle", peerop |-> "none", reapLog |-> "none", reaper |-> {}] :
        k \in Unreaped}
    \cup
    {[running |-> AWAITED, exitcode |-> UNKNOWN, child |-> k.child, cstatus |-> k.cstatus,
      peer |-> w[1], peerop |-> w[2], reapLog |-> "none", reaper |-> {}] :
        k \in Unreaped, w \in {<<"w_reap", "wait">>, <<"tw_reap", "twait">>}}
    \cup
    {[running |-> DONE, exitcode |-> DecodeWait(UNKNOWN, ChildPid, c), child |-> "reaped",
      cstatus |-> c, peer |-> "idle", peerop |-> "wait", reapLog |-> "ok",
      reaper |-> {Peer}] : c \in Statuses}
    \cup
    {[running |-> DONE, exitcode |-> UNKNOWN, child |-> "reaped", cstatus |-> 0,
      peer |-> "idle", peerop |-> "wait", reapLog |-> "echild", reaper |-> {}]}
    \cup
    {[running |-> DONE, exitcode |-> UNKNOWN, child |-> k.child, cstatus |-> k.cstatus,
      peer |-> "idle", peerop |-> "wait", reapLog |-> "eintr", reaper |-> {}] :
        k \in Unreaped \ {[child |-> "reaped", cstatus |-> 0]}}

\* the object, its child and the threads are in start state s
StartsAt(s) ==
    /\ running = s.running
    /\ exitcode = s.exitcode
    /\ mtx = Free
    /\ cvq = {}
    /\ pc = [t \in Threads |-> IF t = Peer THEN s.peer ELSE "idle"]
    /\ op = [t \in Threads |-> IF t = Peer THEN s.peerop ELSE "none"]
    /\ res = [t \in Threads |-> IF t = Peer /\ s.peer = "idle" /\ s.peerop = "wait"
                                THEN "void" ELSE "none"]
    /\ wpid = [t \in Threads |-> 0]
    /\ status = [t \in Threads |-> 0]
    /\ rem = [t \in Threads |-> IF t = Peer /\ s.peer = "tw_reap" THEN MaxTimeout ELSE 0]
    /\ dt = [t \in Threads |-> IF t = Peer /\ s.peer = "tw_reap" THEN 1 ELSE 0]
    /\ sig = [t \in Threads |-> 0]
    /\ child = s.child
    /\ cstatus = s.cstatus
    /\ reapLog = s.reapLog
    /\ reaper = s.reaper
    /\ sigLog = {}

\* the object, its child and the threads are put back to start state s
Restore(s) ==
    /\ running' = s.running
    /\ exitcode' = s.exitcode
    /\ mtx' = Free
    /\ cvq' = {}
    /\ pc' = [t \in Threads |-> IF t = Peer THEN s.peer ELSE "idle"]
    /\ op' = [t \in Threads |-> IF t = Peer THEN s.peerop ELSE "none"]
    /\ res' = [t \in Threads |-> IF t = Peer /\ s.peer = "idle" /\ s.peerop = "wait"
                                THEN "void" ELSE "none"]
    /\ wpid' = [t \in Threads |-> 0]
    /\ status' = [t \in Threads |-> 0]
    /\ rem' = [t \in Threads |-> IF t = Peer /\ s.peer = "tw_reap" THEN MaxTimeout ELSE 0]
    /\ dt' = [t \in Threads |-> IF t = Peer /\ s.peer = "tw_reap" THEN 1 ELSE 0]
    /\ sig' = [t \in Threads |-> 0]
    /\ child' = s.child
    /\ cstatus' = s.cstatus
    /\ reapLog' = s.reapLog
    /\ reaper' = s.reaper
    /\ sigLog' = {}

\* what a call of the Caller has come to: what it returned, _running, _exitcode,
\* and the child
Outcome == [res |-> res[Caller], running |-> running, exitcode |-> exitcode,
            child |-> child, cstatus |-> cstatus]

\* the Caller's call has returned
Returned(k) == pc[Caller] = "idle" /\ op[Caller] = k /\ res[Caller] \in {"true", "false"}

InitEq ==
    /\ FilesAtStart
    /\ \E s \in StartStates :
          /\ StartsAt(s)
          /\ trial = [phase |-> "poll", start |-> s, first |-> Outcome]

\* the Caller calls poll()
EqPoll == trial.phase = "poll" /\ op[Caller] = "none" /\ PollCall(Caller)

\* poll() has returned: its outcome is kept, and everything is put back to the
\* start state for the second call
EqRestart ==
    /\ trial.phase = "poll"
    /\ Returned("poll")
    /\ trial' = [phase |-> "wait0", start |-> trial.start, first |-> Outcome]
    /\ Restore(trial.start)
    /\ UNCHANGED <<files, devnull, procs, kid, spawns, closedOnce, closedAgain, thrown, kids, ctor>>

\* the Caller calls wait(0ms)
EqWait0 == trial.phase = "wait0" /\ op[Caller] = "none" /\ TimedCall(Caller, 0)

\* the steps of the Caller inside poll() and inside wait(0ms); nothing else moves
NextEq ==
    \/ EqPoll
    \/ PollReap(Caller) \/ PollRunning(Caller) \/ PollStore(Caller) \/ PollDone(Caller)
    \/ EqRestart
    \/ EqWait0
    \/ TimedBlock(Caller) \/ TimedTimeout(Caller) \/ TimedExpired(Caller)
    \/ TimedTest(Caller) \/ TimedReap(Caller) \/ TimedGiveUp(Caller)
    \/ TimedNotify(Caller) \/ TimedStore(Caller) \/ TimedDone(Caller)

SpecEq == InitEq /\ [][NextEq]_vars

\* C17: wait(timeout) with a zero timeout is equivalent to poll(): started from
\* the same state (DONE, ALONE or AWAITED) and the same child status, wait(0ms)
\* returns the boolean poll() returned and leaves _running, _exitcode and the
\* child as poll() left them.
C17_Wait0IsPoll ==
    (trial.phase = "wait0" /\ Returned("twait")) => Outcome = trial.first

\* C17 witness: from ALONE with a child killed by a signal and not yet reaped,
\* both calls have reaped it, stored the exit code, and returned true.
C17_Witness ==
    /\ trial.phase = "wait0"
    /\ Returned("twait")
    /\ trial.start.running = ALONE
    /\ trial.start.child = "zombie"
    /\ trial.first.res = "true"
    /\ Outcome = [res |-> "true", running |-> DONE, exitcode |-> -SIGKILL,
                  child |-> "reaped", cstatus |-> W_SIGNALED(SIGKILL)]

(* ------------------------------------------------------------------ *)
(* Specification of an object's life: made, called on, moved, destroyed *)
(* ------------------------------------------------------------------ *)


\* _running and _exitcode of object p
RunningOf(p) == IF p = Shared THEN running ELSE procs[p].running

ExitcodeOf(p) == IF p = Shared THEN exitcode ELSE procs[p].exitcode

\* a move constructor without  if ( this != &p )
Moved_NoGuard(p, q, r, e) ==
    [procs EXCEPT ![q] = [procs[p] EXCEPT !.running = r, !.exitcode = e],
                  ![p] = NoProc("live")]

\* the objects after  process q { std::move(p) }:  q has the members of p (r and
\* e being p's _running and _exitcode), and p is reset unless it is q itself
Moved(p, q, r, e) ==
    IF p = q
    THEN procs
    ELSE [procs EXCEPT ![q] = [procs[p] EXCEPT !.running = r, !.exitcode = e],
                       ![p] = NoProc("live")]

\* process p { DEVNULL | PIPE, argv, STDOUT | PIPE, DEVNULL | SAMEOUT };  the
\* object the thread will call on
LifeSpawn ==
    /\ CanSpawn(Shared)
    /\ \E fd0 \in {DEVNULL, PIPE} : \E fd1 \in {STDOUT, PIPE} : \E fd2 \in {DEVNULL, SAMEOUT} :
          Construct(Shared, fd0, fd1, fd2)
    /\ UNCHANGED <<kids, trial, ctor>>

\* process q { std::move(p) };  whatever the calling thread is doing meanwhile
LifeMove(p, q) ==
    /\ procs[p].st = "live"
    /\ q # p => procs[q].st = "none" /\ \A r \in Procs : r < q => procs[r].st # "none"
    /\ procs' = Moved(p, q, RunningOf(p), ExitcodeOf(p))
    /\ running' = IF p = Shared /\ q # p THEN DONE ELSE running
    /\ exitcode' = IF p = Shared /\ q # p THEN UNKNOWN ELSE exitcode
    /\ kid' = NoKid
    /\ thrown' = NoThrow
    /\ UNCHANGED <<files, devnull, spawns, closedOnce, closedAgain, kids, trial, ctor>>
    /\ UNCHANGED <<mtx, cvq, pc, op, res, locals, kernel, reapLog, reaper, sigLog>>

\* ~process() of object p; the shared one is destroyed between two calls
LifeDestroy(p) == (p = Shared => pc[Caller] = "idle") /\ Destroy(p)

\* the thread begins a call on the shared object
LifeCall == procs[Shared].st = "live" /\ Call(Caller)

\* the thread goes on with its call: being alone, it never finds the object
\* AWAITED by somebody else and never blocks on the condition variable
LifeStep ==
    \/ WaitTest(Caller) \/ WaitReap(Caller) \/ WaitStore(Caller) \/ WaitDone(Caller)
    \/ TimedTest(Caller) \/ TimedReap(Caller) \/ TimedSleep(Caller)
    \/ TimedGiveUp(Caller) \/ TimedNotify(Caller) \/ TimedStore(Caller)
    \/ TimedDone(Caller)
    \/ PollReap(Caller) \/ PollRunning(Caller) \/ PollStore(Caller) \/ PollDone(Caller)
    \/ KillSend(Caller)

\* the child of the shared object ends
LifeChildExit ==
    /\ procs[Shared].st # "none"
    /\ (\E code \in ExitCodes : ChildExit(code)) \/ ChildExitAutoReaped

InitLife == WaitAtRest /\ FilesAtStart /\ trial = NoTrial

NextLife ==
    \/ LifeSpawn
    \/ \E p, q \in Procs : LifeMove(p, q)
    \/ \E p \in Procs : LifeDestroy(p)
    \/ LifeCall
    \/ LifeStep
    \/ LifeChildExit

SpecLife == InitLife /\ [][NextLife]_vars

(* ------------------------------------------------------------------ *)
(* Specification of the shared /dev/null: threads constructing at once *)
(* ------------------------------------------------------------------ *)

\* what the constructor is given here: the call of _fd_or_devnull() that may open
\* /dev/null comes before every ::pipe2() of the same constructor
NullDescs ==
    {d \in {DEVNULL, STDIN} \X {STDOUT, PIPE} \X {DEVNULL, SAMEOUT} :
        d[3] = DEVNULL => d[1] = DEVNULL}

\* thread t stands at `at' in its constructor call with descriptors d
CtorAt(t, at, d) == [ctor EXCEPT !.call[t] = [at |-> at, desc |-> d]]

\* the constructor calls under way
CallsUnderWay == {t \in Threads : ctor.call[t].at # "none"}

\* thread t enters process::process(d[1], argv, d[2], d[3])
NullBegin(t, d) ==
    /\ ctor.call[t].at = "none"
    /\ spawns + Cardinality(CallsUnderWay) < MaxProcs
    /\ ctor' = CtorAt(t, IF d[1] = DEVNULL THEN "once" ELSE "build", d)
    /\ UNCHANGED <<files, devnull, procs, kid, spawns, closedOnce, closedAgain, thrown,
                   kids, trial>>
    /\ UNCHANGED waitvars

\* std::call_once(one_time, ...) with the flag set: the callable is not run, and
\* _fd_or_devnull() returns devnull
OnceReturns(t) ==
    /\ ctor.call[t].at = "once"
    /\ devnull.once
    /\ ctor' = CtorAt(t, "build", ctor.call[t].desc)
    /\ UNCHANGED <<files, devnull, procs, kid, spawns, closedOnce, closedAgain, thrown,
                   kids, trial>>
    /\ UNCHANGED waitvars

\* std::call_once with the flag not set and no thread in the callable: t runs
\* it; a thread that finds another one in the callable waits for its outcome
OnceActive(t) ==
    /\ ctor.call[t].at = "once"
    /\ ~devnull.once
    /\ ctor.active = NoThread
    /\ ctor' = [CtorAt(t, "open", ctor.call[t].desc) EXCEPT !.active = {t}]
    /\ UNCHANGED <<files, devnull, procs, kid, spawns, closedOnce, closedAgain, thrown,
                   kids, trial>>
    /\ UNCHANGED waitvars

\* the flag of one_time after the callable has thrown: not set, so that the next
\* std::call_once runs the callable again
FlagAfterThrow == FALSE

\* devnull = ::open("/dev/null", O_RDWR) succeeds: the flag is set
OnceOpens(t) ==
    /\ ctor.call[t].at = "open"
    /\ FreeFds(files.tab) # {}
    /\ files' = SysOpen(files, NullDev)
    /\ devnull' = [once |-> TRUE, fd |-> LowestFree(files.tab)]
    /\ ctor' = [CtorAt(t, "build", ctor.call[t].desc) EXCEPT !.active = NoThread,
                                                             !.opened = @ + 1]
    /\ UNCHANGED <<procs, kid, spawns, closedOnce, closedAgain, thrown, kids, trial>>
    /\ UNCHANGED waitvars

\* ::open() returns -1: the callable throws std::system_error, the flag stays as
\* the throw leaves it, and the constructor is left before anything was built
OnceThrows(t) ==
    /\ ctor.call[t].at = "open"
    /\ ctor.failed < MaxOpenFailures
    /\ devnull' = [once |-> FlagAfterThrow, fd |-> -1]
    /\ ctor' = [CtorAt(t, "none", NoCall.desc) EXCEPT !.active = NoThread,
                                                      !.failed = @ + 1]
    /\ thrown' = [what |-> "open", open |-> Handles]
    /\ UNCHANGED <<files, procs, kid, spawns, closedOnce, closedAgain, kids, trial>>
    /\ UNCHANGED waitvars

\* the rest of the constructor, /dev/null being open if the call needs it
NullBuild(t) ==
    /\ ctor.call[t].at = "build"
    /\ \E p \in Procs :
          Construct(p, ctor.call[t].desc[1], ctor.call[t].desc[2], ctor.call[t].desc[3])
    /\ ctor' = CtorAt(t, "none", NoCall.desc)
    /\ UNCHANGED <<kids, trial>>

InitNull == WaitAtRest /\ FilesAtStart /\ trial = NoTrial

NextNull ==
    \/ \E t \in Threads : \E d \in NullDescs : NullBegin(t, d)
    \/ \E t \in Threads : OnceReturns(t)
    \/ \E t \in Threads : OnceActive(t)
    \/ \E t \in Threads : OnceOpens(t)
    \/ \E t \in Threads : OnceThrows(t)
    \/ \E t \in Threads : NullBuild(t)
    \/ ChildGoesOn
    \/ \E p \in Procs : StreamClose(p, 2)
    \/ \E p \in Procs : Destroy(p)

SpecNull == InitNull /\ [][NextNull]_vars

(* ------------------------------------------------------------------ *)
(* Specification of the decoding: one thread, every way of ending      *)
(* ------------------------------------------------------------------ *)

\* what the child may hand to _exit(), and the signals that may end it
ExitArgs == -1..MaxExit

DeadlySignals == 1..MaxSignal

\* the child is ended by a signal, dumping core or not, and stays a zombie
ChildKilled(s, core) ==
    /\ child = "running"
    /\ child' = "zombie"
    /\ cstatus' = W_SIGNALED(s) + (IF core THEN WCOREFLAG ELSE 0)
    /\ UNCHANGED <<running, exitcode, mtx, cvq, pc, op, res, locals,
                   reapLog, reaper, sigLog>>
    /\ UNCHANGED fdvars

NextDecode ==
    \/ Call(Caller)
    \/ LifeStep
    \/ \E code \in ExitArgs : ChildExit(code)
    \/ \E s \in DeadlySignals : \E core \in BOOLEAN : ChildKilled(s, core)

SpecDecode == Init /\ [][NextDecode]_vars

(* ------------------------------------------------------------------ *)
(* Specification of wait(timeout) with no time to wait                 *)
(* ------------------------------------------------------------------ *)

\* the steps of wait() and wait(timeout)
ShortStep(t) ==
    \/ WaitBlock(t) \/ WaitRelock(t) \/ WaitTest(t) \/ WaitReap(t)
    \/ WaitStore(t) \/ WaitDone(t)
    \/ TimedBlock(t) \/ TimedTimeout(t) \/ TimedExpired(t) \/ TimedRelock(t)
    \/ TimedTest(t) \/ TimedReap(t) \/ TimedSleep(t) \/ TimedGiveUp(t)
    \/ TimedNotify(t) \/ TimedStore(t) \/ TimedDone(t)

NextShort ==
    \/ \E t \in Threads : WaitCall(t)
    \/ \E t \in Threads : \E timeout \in ShortTimeouts : TimedCall(t, timeout)
    \/ \E t \in Threads : ShortStep(t)
    \/ \E t \in Threads : SpuriousWake(t)
    \/ \E code \in ExitCodes : ChildExit(code)
    \/ ChildExitAutoReaped

SpecShort == Init /\ [][NextShort]_vars

\* the same with two threads, the caller and one other, whatever NumThreads is
Pair == {Caller, Peer}

NextPair ==
    \/ \E t \in Pair : WaitCall(t)
    \/ \E t \in Pair : \E timeout \in ShortTimeouts : TimedCall(t, timeout)
    \/ \E t \in Pair : ShortStep(t)
    \/ \E t \in Pair : SpuriousWake(t)
    \/ \E code \in ExitCodes : ChildExit(code)
    \/ ChildExitAutoReaped

SpecPair == Init /\ [][NextPair]_vars

\* two threads using one process object, kill() being given bad signal numbers
\* too
NextKill ==
    \/ \E t \in Pair : Call(t)
    \/ \E t \in Pair : KillCall(t, BadSignal)
    \/ \E t \in Pair : Step(t)
    \/ \E t \in Pair : SpuriousWake(t)
    \/ \E code \in ExitCodes : ChildExit(code)
    \/ ChildExitAutoReaped

SpecKill == Init /\ [][NextKill]_vars

\* fair scheduling: every thread goes on with its call, and a thread that finds
\* the mutex free again and again gets it in the end; the clock goes on: a
\* deadline that a thread blocks on again and again is reached in the end
FairPair ==
    /\ SpecPair
    /\ \A t \in Pair : SF_vars(ShortStep(t))
    /\ \A t \in Pair : SF_vars(TimedTimeout(t))

(* ------------------------------------------------------------------ *)
(* Specification of the polling loop: one wait(timeout), long budgets  *)
(* ------------------------------------------------------------------ *)

Budgets == 0..MaxBudget

\* the steps of the one thread in wait(timeout): it never finds the object AWAITED
LoopStep ==
    \/ TimedTest(Caller) \/ TimedReap(Caller) \/ TimedSleep(Caller)
    \/ TimedGiveUp(Caller) \/ TimedNotify(Caller) \/ TimedStore(Caller)
    \/ TimedDone(Caller)

NextLoop ==
    \/ \E timeout \in Budgets : TimedCall(Caller, timeout)
    \/ LoopStep
    \/ \E code \in ExitCodes : ChildExit(code)

SpecLoop == Init /\ [][NextLoop]_vars

(* ------------------------------------------------------------------ *)
(* Properties of the wait protocol                                     *)
(* ------------------------------------------------------------------ *)

\* the threads that are inside (or at) a ::waitpid() on the child's pid
Reaping == {t \in Threads : pc[t] \in {"w_reap", "tw_reap", "p_reap"}}

\* thread t is blocked on the condition variable inside wait()
BlockedInWait(t) == pc[t] = "w_blocked" /\ t \in cvq

\* thread t has returned from wait(), or from wait(timeout) with true
ReturnedFromWait(t) ==
    /\ pc[t] = "idle"
    /\ \/ op[t] = "wait" /\ res[t] = "void"
       \/ op[t] = "twait" /\ res[t] = "true"

\* thread t has returned from poll() with true
ReturnedTrueFromPoll(t) == pc[t] = "idle" /\ op[t] = "poll" /\ res[t] = "true"

\* C1: across any interleaving of wait(), wait(timeout), poll() and kill() at most
\* one thread is inside a reaping call (::waitpid(), blocking or not) at any moment.
C1_OneReapingCall == Cardinality(Reaping) <= 1

\* C1 witness: one thread is inside the blocking ::waitpid() while another thread
\* has called wait(timeout) and is kept off the child, blocked on the condition
\* variable.
C1_Witness ==
    \E t, u \in Threads : t # u /\ pc[t] = "w_reap" /\ pc[u] = "tw_blocked"

\* C2: once the child has terminated no thread stays blocked in wait(): a thread
\* cannot sit on the condition variable while the child is gone and no other
\* thread is inside any call (no step of any call is then left to wake it, so
\* under fair scheduling it would stay blocked for ever).
C2_NoWaiterLeftBlocked ==
    ~ \E t \in Threads :
        /\ child # "running"
        /\ BlockedInWait(t)
        /\ \A u \in Threads \ {t} : pc[u] = "idle"

\* C3: baton relay: when the timed reaper gives up, the state does not stay ALONE
\* (UNWAITED) with a thread still blocked in wait() for it to leave AWAITED and
\* nobody left to wake that thread.
C3_BatonIsRelayed ==
    ~ \E t \in Threads :
        /\ running = ALONE
        /\ BlockedInWait(t)
        /\ \E u \in Threads \ {t} : op[u] = "twait" /\ res[u] = "false"
        /\ \A u \in Threads \ {t} : pc[u] = "idle"

\* C4: _exitcode is written only by the thread whose ::waitpid() reaped the child,
\* in a step of its own that comes before _running becomes DONE; and once
\* _running is DONE, _exitcode never changes; a thread that has returned from
\* wait(), a true wait(timeout) or a true poll() finds _running DONE, so all of
\* them read that one value.
C4_ExitCodeWrittenOnceByReaper ==
    [][ /\ running = DONE => exitcode' = exitcode
        /\ \A t \in Threads :
             (ReturnedFromWait(t) \/ ReturnedTrueFromPoll(t))' => running' = DONE
        /\ exitcode' # exitcode =>
             /\ running' # DONE
             /\ \E t \in reaper :
                  /\ pc[t] \in {"w_lock", "tw_lock", "p_store"}
                  /\ pc'[t] \in {"w_done", "tw_done", "p_done"} ]_vars

\* C4 witness: the reaper has recorded an exit code, the state is DONE, and another
\* thread has returned from its own wait.
C4_Witness ==
    \E t, u \in Threads :
        /\ t # u
        /\ reaper = {t}
        /\ running = DONE
        /\ exitcode # UNKNOWN
        /\ ReturnedFromWait(t)
        /\ ReturnedFromWait(u)

\* C5: ::kill() never reaches the kernel for the child's pid after the child was
\* reaped.
C5_NoSignalAfterReap == "reaped" \notin sigLog

\* C6: whenever _running is DONE the child has terminated and has been reaped.
C6_DoneMeansReaped == running = DONE => child = "reaped"

\* C7: after wait() returned, or wait(timeout) returned true, _exitcode differs
\* from UNKNOWN unless ::waitpid() reported that there is no such child.
C7_ExitCodeKnownAfterWait ==
    \A t \in Threads :
        ReturnedFromWait(t) => (exitcode # UNKNOWN \/ reapLog = "echild")

\* C18: poll() on a DONE process: every call, from whichever thread and however
\* often, returns true at once, issues no ::waitpid() and leaves _running,
\* _exitcode and the child as they were.
C18_PollIdempotentOnDone ==
    [][ \A t \in Threads :
          (running = DONE /\ PollCall(t)) =>
              /\ pc'[t] = "idle"
              /\ res'[t] = "true"
              /\ UNCHANGED <<running, exitcode, kernel, reapLog, reaper>> ]_vars

\* C18 witness: every thread has polled the DONE process and got true, the exit
\* code being the one the reaper stored.
C18_Witness ==
    /\ running = DONE
    /\ exitcode = ExecFailed
    /\ \A t \in Threads : ReturnedTrueFromPoll(t)

\* C19: kill(sig) on a DONE process sends no signal, raises no error and changes
\* no state: it returns straight from its poll().
C19_KillOnDoneIsNoOp ==
    [][ \A t \in Threads : \A s \in Signals :
          (running = DONE /\ KillCall(t, s)) =>
              /\ pc'[t] = "idle"
              /\ res'[t] = "void"
              /\ UNCHANGED <<running, exitcode, kernel, reapLog, reaper, sigLog>> ]_vars

\* C19 witness: a kill() has returned on a DONE process and no signal was ever sent.
C19_Witness ==
    \E t \in Threads :
        /\ running = DONE
        /\ pc[t] = "idle" /\ op[t] = "kill" /\ res[t] = "void"
        /\ sigLog = {}

\* thread t was told by ::waitpid() that there is no such child, and has the mutex
\* again
ToldNoChild(t) == wpid[t] = -1 /\ reapLog = "echild"

\* C23: when ::waitpid() reports that there is no such child, wait(),
\* wait(timeout) and poll() still complete normally: _exitcode stays UNKNOWN,
\* _running becomes DONE, every thread blocked on the condition variable is
\* woken, and the call returns (true, where it returns a value) without an error.
C23_NoChildCompletesNormally ==
    [][ \A t \in Threads :
          ToldNoChild(t) =>
              /\ exitcode = UNKNOWN /\ exitcode' = UNKNOWN
              /\ pc[t] \in {"w_lock", "tw_lock", "p_store"} =>
                    pc'[t] \in {pc[t], "w_done", "tw_done", "p_done"}
              /\ (pc[t] \in {"w_done", "tw_done", "p_done"} /\ pc'[t] # pc[t]) =>
                    /\ running' = DONE
                    /\ cvq' = {}
                    /\ \A u \in cvq : pc'[u] \in {"w_relock", "tw_relock"}
                    /\ pc'[t] = "idle"
                    /\ res'[t] = IF op[t] = "twait" \/ op[t] = "poll" THEN "true" ELSE "void" ]_vars

\* C23 witness: the host reaped the child itself; a wait(timeout) was told so and
\* returned true, a thread that was blocked in wait() has returned as well, and
\* the exit code is unknown.
C23_Witness ==
    \E t, u \in Threads :
        /\ t # u
        /\ reapLog = "echild"
        /\ reaper = NoThread
        /\ running = DONE
        /\ exitcode = UNKNOWN
        /\ pc[t] = "idle" /\ op[t] = "twait" /\ res[t] = "true"
        /\ pc[u] = "idle" /\ op[u] = "wait" /\ res[u] = "void"

\* thread t returns from poll() in this step
PollReturns(t) ==
    /\ op'[t] = "poll"
    /\ pc'[t] = "idle"
    /\ PollCall(t) \/ PollRunning(t) \/ PollDone(t)

\* C20: in every reachable state, another thread being inside wait() or
\* wait(timeout) or not, poll() returns true if the child has terminated and false
\* otherwise.
C20_PollTellsTermination ==
    [][ \A t \in Threads :
          PollReturns(t) => (res'[t] = "true" <=> child' # "running") ]_vars

(* ------------------------------------------------------------------ *)
(* Properties of the handles                                           *)
(* ------------------------------------------------------------------ *)

\* the constructor has just made a child
Spawned == kid # NoKid

\* C8: for every combination of slot descriptors, after the child's redirection
\* handle 0 refers to the endpoint stdin's near designated at fork, handle 1 to
\* the one stdout's near designated, handle 2 to the one stderr's near designated
C8_RedirectionInstallsDesignated ==
    Spawned => /\ kid.tab[STDIN] = kid.want[1]
               /\ kid.tab[STDOUT] = kid.want[2]
               /\ kid.tab[STDERR] = kid.want[3]

\* the caller has asked for the swap of the two outputs: { STDERR, STDOUT }
Swapped == Spawned /\ kid.desc[2] = STDERR /\ kid.desc[3] = STDOUT

\* C9: with stdout routed to STDERR and stderr to STDOUT, the child's handle 1
\* refers to the parent's handle-2 endpoint, its handle 2 to the parent's handle-1
\* endpoint, and when execvp() is called no other handle of the child refers to
\* either of them (the duplicate made for the swap is closed)
C9_OutputSwap ==
    Swapped => /\ kid.tab[STDOUT] = Std(STDERR)
               /\ kid.tab[STDERR] = Std(STDOUT)
               /\ \A n \in Fds : n > STDERR => kid.pre[n] \notin {Std(STDOUT), Std(STDERR)}

\* a swap was asked for, whatever stdin was given
C9_Witness == Swapped /\ kid.desc[1] = PIPE /\ kid.tab[STDIN] = PipeRd(PipeId(1, 0))

\* the pipe ends the parent still holds open
OpenEnds == {files.tab[n] : n \in Fds} \ {Closed, NullDev, UserFile, Std(0), Std(1), Std(2)}

\* the ends of the pipes made by the constructor call for object p
PipesOf(p) == {PipeRd(PipeId(p, i)) : i \in 0..2} \cup {PipeWr(PipeId(p, i)) : i \in 0..2}

\* the ends of the pipes of the constructor calls that threw
EndsOfFailed == UNION {PipesOf(p) : p \in {q \in Procs : procs[q].st = "failed"}}

\* C10: no close() is issued for a pipe end that was closed before, and once
\* every process object is destroyed the parent holds no end of their pipes open
C10_EachEndClosedOnce ==
    /\ closedAgain = {}
    /\ (spawns > 0 /\ \A p \in Procs : procs[p].st # "live") =>
           OpenEnds \ EndsOfFailed = {}

\* the handle of the shared /dev/null, once it was opened
NullHandle == IF devnull.once THEN {devnull.fd} ELSE {}

\* C11: when the constructor throws (::fork() failed, or ::pipe2() failed for a
\* later pipe), the handles open in the parent are those that were open before
\* the call, apart from the shared /dev/null handle
C11_ThrowLeavesHandlesAsBefore ==
    thrown.what # "none" => Handles \ NullHandle = thrown.open \ NullHandle

\* the handles a process object exposes: stdin, stdout, stderr
Far(o) == <<o.stdin, o.stdout, o.stderr>>

\* C21: destroying a process object, whatever its _running and without wait() or
\* kill() before, sends no signal and issues no ::waitpid(): the child, the wait
\* state and the logs of both stay as they are; the handles the object exposes
\* are closed afterwards, and nothing is thrown.
C21_DestroyLeavesChildAlone ==
    [][ \A p \in Procs :
          (procs[p].st = "live" /\ procs'[p].st = "dead") =>
              /\ UNCHANGED <<kernel, sigLog, reapLog, reaper, running, exitcode, pc>>
              /\ \A i \in 1..3 :
                    Far(procs[p])[i] >= 0 => files'.tab[Far(procs[p])[i]] = Closed
              /\ thrown' = NoThrow ]_vars

\* C21 witness: the object was destroyed with its pipes open, never waited for,
\* while its child runs on.
C21_Witness ==
    /\ procs[Shared].st = "dead"
    /\ running = ALONE
    /\ child = "running"
    /\ op[Caller] = "none"
    /\ Cardinality(closedOnce) = 4
    /\ PipeEnds(files.tab) = {}

\* the handles held by more than one object
HeldTwice ==
    {h \in Fds : \E a, b \in Procs :
        /\ a # b
        /\ \E i, j \in 1..3 : Far(procs[a])[i] = h /\ Far(procs[b])[j] = h}

\* C22: process q { std::move(p) } hands pid, _running, _exitcode and the three
\* exposed handles of p to q, and resets p to pid 0, DONE, UNKNOWN and -1 for every
\* handle: no handle is held by two objects afterwards, and destroying p then
\* closes nothing; a move of an object into itself leaves it as it was.
C22_MoveTransfers ==
    [][ /\ \A p, q \in Procs :
             LifeMove(p, q) =>
                 IF p = q
                 THEN procs' = procs /\ UNCHANGED <<running, exitcode, files>>
                 ELSE /\ procs'[q].pid = procs[p].pid
                      /\ RunningOf(q)' = RunningOf(p)
                      /\ ExitcodeOf(q)' = ExitcodeOf(p)
                      /\ Far(procs'[q]) = Far(procs[p])
                      /\ procs'[p].pid = 0
                      /\ RunningOf(p)' = DONE
                      /\ ExitcodeOf(p)' = UNKNOWN
                      /\ Far(procs'[p]) = <<DEVNULL, DEVNULL, DEVNULL>>
                      /\ HeldTwice' = {}
                      /\ files' = files
        /\ \A p \in Procs :
             (LifeDestroy(p) /\ procs[p].pid = 0) => files' = files ]_vars

\* C22 witness: the object was moved after its child had been reaped with exit
\* code 127; the new object is DONE with that code and holds the pipe handles,
\* and the moved-from object was destroyed with these handles still open.
C22_Witness ==
    /\ procs[Shared].st = "dead"
    /\ procs[2].st = "live"
    /\ procs[2].pid = ChildPid
    /\ procs[2].running = DONE
    /\ procs[2].exitcode = ExecFailed
    /\ procs[2].stdin >= 0
    /\ files.tab[procs[2].stdin] = PipeWr(PipeId(Shared, 0))

\* the threads that have set AWAITED and have not yet set DONE or ALONE
ReaperRole ==
    {t \in Threads : pc[t] \in {"w_reap", "w_lock", "w_done", "tw_reap", "tw_sleep",
                                "tw_giveup", "tw_lock", "tw_done"}}

\* C26: whenever _running of an object is AWAITED exactly one thread holds the
\* reaper role for that object: no thread returns while it holds the role, and
\* no operation, the move constructor included, makes an object that is AWAITED
\* with no thread reaping for it.
C26_AwaitedHasOneReaper ==
    \A p \in Procs :
        (procs[p].st = "live" /\ RunningOf(p) = AWAITED) =>
            p = Shared /\ Cardinality(ReaperRole) = 1

\* the child could not launch its program: execvp() failed and it left by
\* _Exit(127)
ExecHasFailed == child # "running" /\ cstatus = W_EXITCODE(ExecFailed)

\* C24: if the program cannot be launched, the construction still succeeds in the
\* parent (_running is ALONE, nothing is thrown) and the child ends with exit
\* status 127, so that a later wait() on the object ends with DONE and
\* _exitcode = 127 (unless the host reaped the child itself).
C24_ExecFailureIs127 ==
    /\ [][ LifeSpawn => /\ procs'[Shared].st = "live"
                        /\ procs'[Shared].pid = ChildPid
                        /\ RunningOf(Shared)' = ALONE
                        /\ thrown' = NoThrow ]_vars
    /\ []( ( /\ procs[Shared].pid = ChildPid
             /\ pc[Caller] = "idle" /\ op[Caller] = "wait" /\ res[Caller] = "void"
             /\ ExecHasFailed
             /\ reapLog # "echild" )
           => (running = DONE /\ exitcode = ExecFailed) )

\* C25: /dev/null is opened successfully at most once, even when several threads
\* construct processes with DEVNULL slots at once; every DEVNULL slot of every
\* spawn stands for that same handle; the parent never closes it; a failed open
\* throws std::system_error and is tried again by the next construction that
\* needs it.
C25_NullDeviceOnce ==
    /\ [](ctor.opened <= 1)
    /\ [](Spawned => \A i \in 1..3 : kid.desc[i] = DEVNULL => kid.want[i] = NullDev)
    /\ [](devnull.once => files.tab[devnull.fd] = NullDev)
    /\ [][ \A t \in Threads :
             /\ OnceThrows(t) => (thrown'.what = "open" /\ ctor'.call[t].at = "none")
             /\ (ctor.failed > 0 /\ ctor.opened = 0 /\ ctor.call[t].at = "once"
                   /\ ctor.active = NoThread /\ ctor'.call[t].at # "once")
                  => ctor'.call[t].at = "open" ]_vars

\* C27: for every reaped status, _exitcode is the low-order 8 bits of the exit
\* status (0..255) when the child exited, and the negated signal number when a
\* signal ended it; wait(), wait(timeout) and poll() decode alike.
C27_DecodeExitCode ==
    /\ (running = DONE /\ reapLog = "ok") =>
          /\ \A code \in ExitArgs :
                cstatus = W_EXITCODE(code) => (exitcode = code % 256 /\ exitcode \in 0..255)
          /\ \A s \in DeadlySignals :
                cstatus \in {W_SIGNALED(s), W_SIGNALED(s) + WCOREFLAG} => exitcode = -s
    /\ \A w \in {-1, ChildPid} :
          /\ DecodeWait(exitcode, w, cstatus) = DecodeTimed(exitcode, w, cstatus)
          /\ DecodeTimed(exitcode, w, cstatus) = DecodePoll(exitcode, w, cstatus)

\* C27 witness: the child died of signal 11 and dumped core; wait(timeout) has
\* reaped it and returned true with _exitcode = -11.
C27_Witness ==
    /\ pc[Caller] = "idle" /\ op[Caller] = "twait" /\ res[Caller] = "true"
    /\ reapLog = "ok"
    /\ cstatus = W_SIGNALED(11) + WCOREFLAG
    /\ running = DONE
    /\ exitcode = -11

\* C28: a wait(timeout) that finds _running ALONE issues at least one
\* ::waitpid(WNOHANG) before it can return false, however short the timeout is,
\* zero and negative included: from the test it goes to the reaping call, it gives
\* up only after that call found the child running, and a child that has
\* terminated is reaped by it, after which the call returns true.
C28_ReapsOnceAtLeast ==
    [][ \A t \in Threads :
          /\ (pc[t] = "tw_test" /\ running = ALONE /\ pc'[t] # pc[t]) => pc'[t] = "tw_reap"
          /\ (pc[t] # "tw_giveup" /\ pc'[t] = "tw_giveup") =>
                (pc[t] = "tw_reap" /\ child = "running")
          /\ (pc[t] # "idle" /\ pc'[t] = "idle" /\ op[t] = "twait" /\ res'[t] = "false") =>
                (pc[t] = "tw_expired" \/ pc[t] = "tw_notify")
          /\ (pc[t] # "tw_notify" /\ pc'[t] = "tw_notify") => pc[t] = "tw_giveup"
          /\ (pc[t] = "tw_reap" /\ pc'[t] # pc[t] /\ child # "running") =>
                (pc'[t] = "tw_lock" /\ child' = "reaped")
          /\ (pc[t] \in {"tw_lock", "tw_done"} /\ pc'[t] # pc[t]) =>
                (pc'[t] = "tw_done" \/ (pc'[t] = "idle" /\ res'[t] = "true")) ]_vars

\* C28 witness: wait(-1ms) found the object ALONE and its child a zombie, and has
\* reaped it.
C28_Witness ==
    \E t \in Threads :
        /\ pc[t] = "tw_lock"
        /\ rem[t] = MinTimeout
        /\ wpid[t] = ChildPid
        /\ reapLog = "ok"
        /\ child = "reaped"

\* the values dt takes: 1, 2, 4, ..., 64
DtValues == {1, 2, 4, 8, 16, 32, MaxDt}

\* C29: in the polling loop of wait(timeout) the first dt is 1 ms, each sleep
\* lasts min(dt, remaining), and dt doubles after each sleep until it is 64 and
\* then stays 64: every sleep is positive, at most 64 ms and at most the
\* remaining budget.
C29_SleepsBacked ==
    [][ \A t \in Threads :
          /\ (pc[t] = "tw_test" /\ pc'[t] = "tw_reap") => dt'[t] = 1
          /\ (pc[t] = "tw_sleep" /\ pc'[t] = "tw_reap") =>
                /\ dt[t] \in DtValues
                /\ rem[t] - rem'[t] = Min(dt[t], rem[t])
                /\ rem[t] - rem'[t] > 0
                /\ rem[t] - rem'[t] <= MaxDt
                /\ rem[t] - rem'[t] <= rem[t]
                /\ dt'[t] = IF dt[t] = MaxDt THEN MaxDt ELSE 2 * dt[t] ]_vars

\* C29 witness: the call has slept with dt at 64 ms, the last sleep cut to what
\* was left of the budget, and gives up with nothing left.
C29_Witness ==
    /\ pc[Caller] = "tw_giveup"
    /\ dt[Caller] = MaxDt
    /\ rem[Caller] = 0
    /\ child = "running"

\* thread t is inside wait(timeout)
InTimedWait(t) == op[t] = "twait" /\ pc[t] # "idle"

\* C30: under fair scheduling every call of wait(timeout) eventually returns,
\* whether the child ever terminates or not, and whether or not another thread is
\* blocked in wait() as the reaper.
C30_TimedWaitReturns == \A t \in Threads : InTimedWait(t) ~> pc[t] = "idle"

\* C30 witness: a wait(timeout) has returned false while the other thread is the
\* reaper, blocked in the ::waitpid() of wait(), and the child runs on.
C30_Witness ==
    \E t, u \in Threads :
        /\ pc[t] = "idle" /\ op[t] = "twait" /\ res[t] = "false"
        /\ pc[u] = "w_reap"
        /\ running = AWAITED
        /\ child = "running"

\* where a wait(timeout) stands that has not yet passed its wait_for()
InWaitFor == {"tw_block", "tw_blocked", "tw_expired", "tw_relock"}

\* C31: when wait(timeout) returns false because _running did not leave AWAITED
\* within the timeout, another thread holds the reaper role at that moment, and
\* the returning call has issued no ::waitpid() and changed neither _running nor
\* _exitcode: it comes from wait_for() only, and its steps there leave the object
\* and the child as they are.
C31_TimedOutLeavesReaper ==
    [][ \A t \in Threads :
          /\ (pc[t] = "tw_expired" /\ pc'[t] = "idle") =>
                /\ res'[t] = "false"
                /\ running = AWAITED
                /\ ReaperRole \ {t} # {}
                /\ Cardinality(ReaperRole) = 1
                /\ UNCHANGED <<running, exitcode, kernel, reapLog, reaper>>
          /\ (pc'[t] \in InWaitFor /\ pc'[t] # pc[t]) =>
                /\ pc[t] \in InWaitFor \cup {"idle"}
                /\ (pc[t] # "tw_blocked" \/ pc'[t] = "tw_expired") =>
                      UNCHANGED <<running, exitcode, kernel, reapLog, reaper>> ]_vars

\* C31 witness: a wait(timeout) has returned false while the other thread,
\* the reaper, sleeps in the polling loop of its own wait(timeout); no ::waitpid()
\* has reported anything yet.
C31_Witness ==
    \E t, u \in Threads :
        /\ pc[t] = "idle" /\ op[t] = "twait" /\ res[t] = "false"
        /\ pc[u] = "tw_sleep"
        /\ running = AWAITED
        /\ reapLog = "none"

\* the ends of the pipe made for slot i of object p: the one near the child (the
\* reading end for stdin, the writing end for stdout and stderr) and the far one
NearEnd(p, i) == IF i = 1 THEN PipeRd(PipeId(p, 0)) ELSE PipeWr(PipeId(p, i - 1))

FarEnd(p, i) == IF i = 1 THEN PipeWr(PipeId(p, 0)) ELSE PipeRd(PipeId(p, i - 1))

\* C32: when the construction returns in the parent, the near end of every pipe
\* allocated for the process is closed in the parent, each far end is open and
\* exposed, the handles that were given (and the shared /dev/null) are still
\* open, and _running is ALONE.
C32_ParentAfterConstruction ==
    Spawned =>
        /\ procs[kid.obj].running = ALONE
        /\ procs[kid.obj].pid = ChildPid
        /\ \A i \in 1..3 :
              /\ kid.desc[i] = PIPE =>
                    /\ NearEnd(kid.obj, i) \notin PipeEnds(files.tab)
                    /\ Far(procs[kid.obj])[i] >= 0
                    /\ files.tab[Far(procs[kid.obj])[i]] = FarEnd(kid.obj, i)
              /\ kid.desc[i] >= 0 =>
                    (files.tab[kid.desc[i]] # Closed /\ files.tab[kid.desc[i]] = kid.want[i])
              /\ kid.desc[i] = DEVNULL =>
                    (devnull.once /\ files.tab[devnull.fd] = NullDev)

\* C32 witness: stdin and stderr were given PIPE and stdout the caller's own file:
\* the far ends are exposed, the near ends are closed, the file is open.
C32_Witness ==
    /\ Spawned
    /\ kid.desc = <<PIPE, STDERR + 1, PIPE>>
    /\ procs[kid.obj].stdin >= 0
    /\ procs[kid.obj].stderr >= 0
    /\ files.tab[STDERR + 1] = UserFile
    /\ Cardinality(PipeEnds(files.tab)) = 2

\* the handles the child has closed by the three calls of close()
ClosedByChild == {n \in Fds : kid.red[n] # Closed /\ kid.pre[n] = Closed}

C34_DuplicateNearPrecondition ==
    Spawned => \A d \in kid.dups :
        /\ d.near \in {STDIN, STDOUT, STDERR}
        /\ d.slot = 2 /\ d.near = STDERR /\ d.err = STDOUT

\* the swap was spawned: stdout to handle 2, stderr to handle 1, and the
\* duplicate was made and closed again before execvp()
C34_Witness ==
    /\ Spawned /\ kid.desc[2] = STDERR /\ kid.desc[3] = STDOUT
    /\ kid.dups # {} /\ kid.chan[2].near > STDERR
    /\ kid.chan[2].near \in ClosedByChild
    /\ kid.tab[STDOUT] = kid.want[2] /\ kid.tab[STDERR] = kid.want[3]

\* the steps of poll() inside kill()
InKillPoll == {"p_reap", "p_store", "p_done"}

\* C35: kill(sig) called in ALONE while the child is a zombie reaps it: the
\* call goes to ::waitpid(), which takes the zombie; the status is decoded,
\* _running becomes DONE, kill() returns normally, and ::kill() is not called.
C35_KillReapsZombie ==
    [][ \A t \in Threads : op'[t] = "kill" =>
          /\ (pc[t] = "idle" /\ pc'[t] # "idle" /\ running = ALONE) =>
                pc'[t] = "p_reap" /\ sigLog' = sigLog
          /\ (pc[t] = "p_reap" /\ child = "zombie" /\ pc'[t] # "p_reap") =>
                /\ pc'[t] = "p_store" /\ child' = "reaped"
                /\ wpid'[t] = ChildPid /\ status'[t] = cstatus /\ sigLog' = sigLog
          /\ (pc[t] = "p_store" /\ wpid[t] = ChildPid /\ pc'[t] # "p_store") =>
                /\ pc'[t] = "p_done" /\ sigLog' = sigLog /\ status[t] = cstatus
                /\ \A code \in ExitCodes : cstatus = W_EXITCODE(code) => exitcode' = code
                /\ \A s \in Signals : cstatus = W_SIGNALED(s) => exitcode' = -s
          /\ (pc[t] = "p_done" /\ pc'[t] # "p_done") =>
                /\ pc'[t] = "idle" /\ res'[t] = "void" /\ running' = DONE
                /\ exitcode' = exitcode /\ sigLog' = sigLog
          /\ (pc[t] \in InKillPoll /\ pc'[t] = pc[t]) =>
                UNCHANGED <<running, exitcode>> ]_vars

\* C35 witness: kill(SIGTERM) has returned normally with the child reaped by
\* it, _exitcode = 127, and no signal was ever sent.
C35_Witness ==
    \E t \in Threads :
        /\ op[t] = "kill" /\ pc[t] = "idle" /\ res[t] = "void" /\ reaper = {t}
        /\ running = DONE /\ exitcode = ExecFailed /\ sigLog = {}
        /\ cstatus = W_EXITCODE(ExecFailed)

\* C36: when ::kill() fails (bad signal number, no such process), kill() ends
\* with an OS-error and changes nothing of the object: _running, _exitcode, pid
\* and the handles stay as poll() left them; no other operation ends with an
\* error.
C36_KillFailureRaises ==
    [][ \A t \in Threads :
          /\ (pc[t] = "k_send" /\ pc'[t] = "idle") =>
                /\ res'[t] = (IF sig[t] = BadSignal \/ child = "reaped"
                              THEN "error" ELSE "void")
                /\ UNCHANGED <<running, exitcode, procs, files>>
                /\ res'[t] = "error" => UNCHANGED <<kernel, reapLog, reaper>>
          /\ (res'[t] = "error" /\ res[t] # "error") =>
                op[t] = "kill" /\ pc[t] = "k_send"
          /\ (res'[t] = "error" /\ pc'[t] = "idle") => op'[t] = "kill" ]_vars

\* C36 witness: kill() failed because the other thread reaped the child after
\* poll() had said "running"; the object is DONE with the exit code 127.
C36_Witness ==
    \E t, u \in Threads :
        /\ t # u /\ op[u] = "kill" /\ pc[u] = "idle" /\ res[u] = "error"
        /\ reaper = {t} /\ "reaped" \in sigLog
        /\ running = DONE /\ exitcode = ExecFailed

\* thread t goes from position a to position b in this step
Goes(t, a, b) == pc[t] = a /\ pc'[t] = b

\* C37: _running changes only from ALONE to AWAITED (wait() or wait(timeout)
\* taking the reaper's role), from AWAITED to DONE (the reaper, having reaped),
\* from AWAITED to ALONE (the timed reaper out of budget) and from ALONE to DONE
\* (poll()); it never leaves DONE.
C37_RunningEdges ==
    [][ running' # running =>
          \/ /\ running = ALONE /\ running' = AWAITED
             /\ \E t \in Threads : Goes(t, "w_test", "w_reap") \/ Goes(t, "tw_test", "tw_reap")
          \/ /\ running = AWAITED /\ running' = DONE
             /\ \E t \in Threads : Goes(t, "w_done", "idle") \/ Goes(t, "tw_done", "idle")
          \/ /\ running = AWAITED /\ running' = ALONE
             /\ \E t \in Threads : Goes(t, "tw_giveup", "tw_notify")
          \/ /\ running = ALONE /\ running' = DONE
             /\ \E t \in Threads : Goes(t, "p_done", "idle") ]_vars

\* C37 witness: a wait(timeout) has returned false, the reaper of that time gave
\* the role back, and a later poll() of the other thread reaped the child.
C37_Witness ==
    \E t, u \in Threads :
        /\ t # u /\ running = DONE
        /\ op[t] = "twait" /\ pc[t] = "idle" /\ res[t] = "false"
        /\ op[u] = "poll" /\ pc[u] = "idle" /\ res[u] = "true" /\ reaper = {u}

\* the values a decoded _exitcode may take
DecodedCodes == (0..255) \cup (-126..-1)

\* C38: _exitcode is UNKNOWN (-127) only as long as no status was decoded:
\* whatever the child's end, wait(), wait(timeout) and poll() decode its status
\* to 0..255 (exit) or -126..-1 (signal), never to UNKNOWN, 127 of a failed
\* execvp() included.
C38_DecodedNeverUnknown ==
    /\ UNKNOWN \notin DecodedCodes
    /\ exitcode # UNKNOWN => (exitcode \in DecodedCodes /\ reapLog = "ok")
    /\ (running = DONE /\ reaper # NoThread) => exitcode \in DecodedCodes
    /\ child # "running" =>
          /\ DecodeWait(UNKNOWN, ChildPid, cstatus) \in DecodedCodes
          /\ DecodeTimed(UNKNOWN, ChildPid, cstatus) \in DecodedCodes
          /\ DecodePoll(UNKNOWN, ChildPid, cstatus) \in DecodedCodes

\* C38 witness: execvp() failed, the child called _Exit(127) and poll() reaped
\* it: _exitcode is 127.
C38_Witness ==
    /\ running = DONE /\ reaper = {Caller} /\ op[Caller] = "poll"
    /\ pc[Caller] = "idle" /\ res[Caller] = "true"
    /\ cstatus = W_EXITCODE(ExecFailed) /\ exitcode = ExecFailed /\ exitcode = -UNKNOWN

\* C39: ::kill() is never called with pid 0, which would signal the caller's
\* own process group: a moved-from object has pid 0 and is DONE, and kill(),
\* wait(), wait(timeout) and poll() on it return at once.
C39_NeverSignalsGroup == "group" \notin sigLog

\* the handles this step closes in the parent
ClosedInStep == {n \in Fds : files.tab[n] # Closed /\ files'.tab[n] = Closed}

\* C12: ownership: constructing a process closes or changes no handle that was
\* open in the parent before, and records -1 (none) for every slot that was given
\* a handle; destroying a process closes no handle but those of the pipe ends that
\* were allocated for it (or for the object it was moved from).
C12_Ownership ==
    [][ \A p \in Procs :
          /\ (procs[p].st = "none" /\ procs'[p].st = "live") =>
                /\ \A n \in Handles : files'.tab[n] = files.tab[n]
                /\ \A i \in 1..3 : kid'.desc[i] >= 0 => Far(procs'[p])[i] = DEVNULL
          /\ (procs[p].st = "live" /\ procs'[p].st = "dead") =>
                \A n \in ClosedInStep : files.tab[n] \in FarEnds(procs[p]) ]_vars

\* C13: a child never holds, after execvp(), an end of a pipe allocated for
\* another process, unless that end is what one of its three slot descriptors
\* stood for at fork(): the ends of the pipes of earlier processes that the parent
\* has open, the writing end of an earlier stdin pipe among them, are closed in it.
C13_NoForeignEndsInChild ==
    Spawned =>
        \A e \in PipeEnds(kid.tab) \ PipesOf(kid.obj) : e \in {kid.want[i] : i \in 1..3}

\* C13 witness: the second child reads the first one's stdout, and was forked
\* while the parent had the writing end of the first one's stdin pipe open; it
\* does not hold that end.
C13_Witness ==
    /\ Spawned
    /\ kid.obj = 2
    /\ kid.tab[STDIN] = PipeRd(PipeId(1, 1))
    /\ PipeWr(PipeId(1, 0)) \in PipeEnds(files.tab)
    /\ PipeWr(PipeId(1, 0)) \notin PipeEnds(kid.tab)
    /\ kids[1].st = "run"

\* the child of p has exited and no writing end of p's output pipe is open in the
\* parent or in another child: whoever reads that pipe reads end-of-file
OutputPipeShut(p) == PipeWr(PipeId(p, 1)) \notin HeldBesides(p)

\* every stage of the pipeline was spawned, and the parent holds no writing end
\* of a pipe (it has closed the stream it fed the first stage through, if any)
Chained ==
    /\ \A p \in Procs : kids[p].st # "none"
    /\ \A e \in PipeEnds(files.tab) : e[1] # "wr"

\* every child has exited: a wait() on any of them, the last included, returns
Drained == \A p \in Procs : kids[p].st = "exited"

\* every process object of the pipeline is destroyed
AllDestroyed == \A p \in Procs : procs[p].st = "dead"

\* C14: in a pipeline chained through PIPE pipes, once a producer's child has
\* exited no writing end of its output pipe is open in the parent or in another
\* child, so its consumer reads end-of-file; with every program ending at
\* end-of-file all children, the last included, eventually exit, so that wait() on
\* the last returns; and once the objects are destroyed the parent holds no
\* handle of any of the pipes.
C14_PipelineDrains ==
    /\ [](\A p \in Procs : kids[p].st = "exited" => OutputPipeShut(p))
    /\ [](AllDestroyed => PipeEnds(files.tab) = {})
    /\ (Chained ~> Drained)

\* C14 witness: a pipeline of producer and consumer, the consumer reading the
\* producer's stdout pipe; both have exited, the objects are destroyed and the
\* parent holds no pipe handle.
C14_Witness ==
    /\ Drained
    /\ AllDestroyed
    /\ \E p \in Procs : kids[p].in = PipeRd(PipeId(1, 1)) /\ p # 1
    /\ PipeEnds(files.tab) = {}
    /\ PipeRd(PipeId(1, 1)) \in closedOnce

\* C15: after a successful construction the exposed handle of a slot differs from
\* -1 (none) if and only if the slot was given PIPE
C15_FarIffPipe ==
    Spawned => \A i \in 1..3 : (Far(procs[kid.obj])[i] # DEVNULL) <=> (kid.desc[i] = PIPE)

\* a process built with DEVNULL on all three slots exposes no handle
C15_Witness ==
    /\ Spawned
    /\ kid.desc = <<DEVNULL, DEVNULL, DEVNULL>>
    /\ Far(procs[kid.obj]) = <<DEVNULL, DEVNULL, DEVNULL>>
    /\ kid.tab[STDOUT] = NullDev

\* every endpoint the child held on its way to execvp(), and those of the parent
EndsSeen == {kid.pre[n] : n \in Fds} \cup {files.tab[n] : n \in Fds} \cup closedOnce

\* C16: with SAMEOUT for stderr, whatever stdout is given, the child's handle 2
\* refers to the same endpoint as its handle 1, no pipe is made for stderr, and
\* the parent's stderr handle is -1 (none)
C16_SameAsOut ==
    (Spawned /\ kid.desc[3] = SAMEOUT) =>
        /\ kid.tab[STDERR] = kid.tab[STDOUT]
        /\ Far(procs[kid.obj])[3] = DEVNULL
        /\ EndsSeen \cap {PipeRd(PipeId(kid.obj, 2)), PipeWr(PipeId(kid.obj, 2))} = {}

\* stdout is a pipe and stderr goes the same way: both are its writing end
C16_Witness ==
    /\ Spawned
    /\ kid.desc[2] = PIPE
    /\ kid.desc[3] = SAMEOUT
    /\ kid.tab[STDERR] = PipeWr(PipeId(kid.obj, 1))
    /\ procs[kid.obj].stdout >= 0

====
